---------------------------- MODULE Spec2Model ----------------------------
(***************************************************************************)
(* linkleaf-core: a file-backed feed of links.                             *)
(*                                                                         *)
(*   src/src/fs.rs   read_feed / write_feed  (load and atomic-style save)  *)
(*   src/src/lib.rs  add (upsert), list (filter), RSS projection           *)
(*                                                                         *)
(* The file system is modelled at the level the code uses it: directory    *)
(* entries (path -> inode), inode contents, and open file descriptions.    *)
(* File contents are sequences of encoded fields ("tokens"), the unit in   *)
(* which a write reaches the file.                                         *)
(***************************************************************************)
EXTENDS Integers, Sequences, FiniteSets, TLC

(***************************************************************************)
(* Bounds of the model.                                                    *)
(***************************************************************************)
MaxLinks == 3        \* inserts are disabled once a feed holds this many links
MaxCalls == 2        \* calls started in one concurrent run

(***************************************************************************)
(* Option<T>: None is the empty sequence, Some(x) the one-element one.     *)
(***************************************************************************)
None == <<>>
Some(x) == <<x>>
IsSome(o) == o # <<>>
Unwrap(o) == o[1]

Range(s) == {s[i] : i \in 1..Len(s)}

\* F applied to the value of v, which is computed once
Let(v, F(_)) == F(v)

(***************************************************************************)
(* Data model (linkleaf_proto, generated from proto/linkleaf/v1/feed.proto)*)
(***************************************************************************)
DateTimeFields == <<"year", "month", "day", "hours", "minutes", "seconds", "nanos">>

DefaultDateTime ==
  [year |-> 0, month |-> 0, day |-> 0, hours |-> 0, minutes |-> 0,
   seconds |-> 0, nanos |-> 0]

DefaultLink ==
  [id |-> "", title |-> "", url |-> "", datetime |-> None, summary |-> None,
   tags |-> <<>>, via |-> None]

\* Feed::default()
DefaultFeed == [version |-> 0, title |-> "", links |-> <<>>]

\* Summary::new(content), Via::new(url)
Summary(content) == [content |-> content]
Via(url) == [url |-> url]

(***************************************************************************)
(* Binary encoding.  One token per encoded field: k the field, s / n its   *)
(* string / integer value, m the tokens of a nested message.  As in        *)
(* proto3, a scalar field holding its default (0, "") is not written, a    *)
(* present nested message is written even when empty, and every element of *)
(* a repeated field is written.                                            *)
(***************************************************************************)
Tok(k, s, n, m) == [k |-> k, s |-> s, n |-> n, m |-> m]
StrField(k, s) == IF s = "" THEN <<>> ELSE <<Tok(k, s, 0, <<>>)>>
IntField(k, n) == IF n = 0 THEN <<>> ELSE <<Tok(k, "", n, <<>>)>>
MsgField(k, m) == <<Tok(k, "", 0, m)>>

\* bytes that are no field of any message
Junk == Tok("junk", "", 0, <<>>)
\* a zero byte, as found in the hole a write past the end of a file leaves
Zero == Tok("zero", "", 0, <<>>)

RECURSIVE EncodeDateTimeFrom(_, _)
EncodeDateTimeFrom(dt, i) ==
  IF i > Len(DateTimeFields) THEN <<>>
  ELSE IntField(DateTimeFields[i], dt[DateTimeFields[i]]) \o EncodeDateTimeFrom(dt, i + 1)

EncodeDateTime(dt) == EncodeDateTimeFrom(dt, 1)

RECURSIVE EncodeTags(_)
EncodeTags(tags) ==
  IF tags = <<>> THEN <<>>
  ELSE <<Tok("tags", Head(tags), 0, <<>>)>> \o EncodeTags(Tail(tags))

EncodeLink(l) ==
     StrField("id", l.id) \o StrField("title", l.title) \o StrField("url", l.url)
  \o (IF IsSome(l.datetime) THEN MsgField("datetime", EncodeDateTime(Unwrap(l.datetime))) ELSE <<>>)
  \o (IF IsSome(l.summary) THEN MsgField("summary", StrField("content", Unwrap(l.summary).content)) ELSE <<>>)
  \o EncodeTags(l.tags)
  \o (IF IsSome(l.via) THEN MsgField("via", StrField("url", Unwrap(l.via).url)) ELSE <<>>)

RECURSIVE EncodeLinks(_)
EncodeLinks(links) ==
  IF links = <<>> THEN <<>>
  ELSE MsgField("links", EncodeLink(Head(links))) \o EncodeLinks(Tail(links))

\* feed.encode(&mut buf)
Encode(feed) ==
  IntField("version", feed.version) \o StrField("title", feed.title) \o EncodeLinks(feed.links)

(***************************************************************************)
(* Decoding: fields are merged into the default value in the order read;   *)
(* anything that is not a field of the message is a decode error.          *)
(***************************************************************************)
Decoded(val) == [ok |-> TRUE, val |-> val]
Undecodable(val) == [ok |-> FALSE, val |-> val]

RECURSIVE DecodeDateTimeFrom(_, _)
DecodeDateTimeFrom(toks, acc) ==
  IF toks = <<>> THEN Decoded(acc)
  ELSE LET t == Head(toks) IN
       IF t.k \in Range(DateTimeFields)
       THEN DecodeDateTimeFrom(Tail(toks), [acc EXCEPT ![t.k] = t.n])
       ELSE Undecodable(acc)

RECURSIVE DecodeStrMsgFrom(_, _, _)
\* a message with the one string field `field` (Summary, Via)
DecodeStrMsgFrom(toks, field, acc) ==
  IF toks = <<>> THEN Decoded(acc)
  ELSE LET t == Head(toks) IN
       IF t.k = field
       THEN DecodeStrMsgFrom(Tail(toks), field, [acc EXCEPT ![field] = t.s])
       ELSE Undecodable(acc)

RECURSIVE DecodeLinkFrom(_, _)
DecodeLinkFrom(toks, acc) ==
  IF toks = <<>> THEN Decoded(acc)
  ELSE LET t == Head(toks)
           rest == Tail(toks)
       IN  CASE t.k \in {"id", "title", "url"} ->
                  DecodeLinkFrom(rest, [acc EXCEPT ![t.k] = t.s])
             [] t.k = "tags" ->
                  DecodeLinkFrom(rest, [acc EXCEPT !.tags = Append(@, t.s)])
             [] t.k = "datetime" ->
                  Let(DecodeDateTimeFrom(t.m,
                        IF IsSome(acc.datetime) THEN Unwrap(acc.datetime) ELSE DefaultDateTime),
                      LAMBDA d : IF d.ok
                                 THEN DecodeLinkFrom(rest, [acc EXCEPT !.datetime = Some(d.val)])
                                 ELSE Undecodable(acc))
             [] t.k = "summary" ->
                  Let(DecodeStrMsgFrom(t.m, "content",
                        IF IsSome(acc.summary) THEN Unwrap(acc.summary) ELSE Summary("")),
                      LAMBDA d : IF d.ok
                                 THEN DecodeLinkFrom(rest, [acc EXCEPT !.summary = Some(d.val)])
                                 ELSE Undecodable(acc))
             [] t.k = "via" ->
                  Let(DecodeStrMsgFrom(t.m, "url",
                        IF IsSome(acc.via) THEN Unwrap(acc.via) ELSE Via("")),
                      LAMBDA d : IF d.ok
                                 THEN DecodeLinkFrom(rest, [acc EXCEPT !.via = Some(d.val)])
                                 ELSE Undecodable(acc))
             [] OTHER -> Undecodable(acc)

RECURSIVE DecodeFeedFrom(_, _)
DecodeFeedFrom(toks, acc) ==
  IF toks = <<>> THEN Decoded(acc)
  ELSE LET t == Head(toks)
           rest == Tail(toks)
       IN  CASE t.k = "version" -> DecodeFeedFrom(rest, [acc EXCEPT !.version = t.n])
             [] t.k = "title" -> DecodeFeedFrom(rest, [acc EXCEPT !.title = t.s])
             [] t.k = "links" ->
                  Let(DecodeLinkFrom(t.m, DefaultLink),
                      LAMBDA d : IF d.ok
                                 THEN DecodeFeedFrom(rest, [acc EXCEPT !.links = Append(@, d.val)])
                                 ELSE Undecodable(acc))
             [] OTHER -> Undecodable(acc)

\* Feed::decode(bytes)
Decode(bytes) == DecodeFeedFrom(bytes, DefaultFeed)


(***************************************************************************)
(* Paths.  A path is its parent directory (a sequence of components, empty *)
(* when the path has no parent), its file stem and its extension ("" when  *)
(* it has none).                                                           *)
(***************************************************************************)
\* Path::with_extension
with_extension(path, ext) == [path EXCEPT !.ext = ext]

\* a variant of the temporary path: the destination itself
TmpSelf(path) == path

\* let tmp = path.with_extension("pb.tmp");
TmpPath(path) == with_extension(path, "pb.tmp")

\* the feed file the callers work on
FeedFile == [dir |-> <<"nested", "dir">>, stem |-> "feed", ext |-> "pb"]

Paths == {FeedFile, TmpPath(FeedFile)}

\* a directory and all its ancestors
Prefixes(dir) == {SubSeq(dir, 1, k) : k \in 1..Len(dir)}

(***************************************************************************)
(* File system: dirs the directories that exist, names the directory       *)
(* entries (0: no such file), data the contents of each inode.  `open` is  *)
(* the set of inodes some process holds an open file description of.       *)
(***************************************************************************)
Min(S) == CHOOSE x \in S : \A y \in S : x <= y

NumProcs == 2
Procs == 1..NumProcs
Inodes == 1..(NumProcs + 2)
\* the value of a directory entry or a descriptor that refers to no file
NoIno == Min(Inodes) - 1


Linked(fs) == {fs.names[p] : p \in Paths} \ {NoIno}

\* the place of inode i among the inodes S, in increasing order
Rank(i, S) == Cardinality({j \in S : j <= i})

\* An inode no name and no open file description refers to is gone.  Inode
\* numbers carry no meaning: while no description is open the files are
\* renumbered 1, 2, ... in their order.
Reclaim(fs, open) ==
  IF open = {}
  THEN [fs EXCEPT !.names = [p \in Paths |-> IF @[p] = NoIno THEN NoIno
                                             ELSE Rank(@[p], Linked(fs))],
                  !.data = [i \in Inodes |->
                              IF i <= Cardinality(Linked(fs))
                              THEN @[CHOOSE j \in Linked(fs) : Rank(j, Linked(fs)) = i]
                              ELSE <<>>]]
  ELSE [fs EXCEPT !.data = [i \in Inodes |-> IF i \in Linked(fs) \union open THEN @[i]
                                             ELSE <<>>]]

DirExists(fs, dir) == dir = <<>> \/ dir \in fs.dirs

\* fs::create_dir(dir) in the place of create_dir_all: makes the last component
\* only, and nothing when the parent is missing
create_dir(fs, dir) ==
  IF Len(dir) <= 1 \/ SubSeq(dir, 1, Len(dir) - 1) \in fs.dirs
  THEN [fs EXCEPT !.dirs = @ \union {dir}] ELSE fs

\* fs::create_dir_all(dir)
create_dir_all(fs, dir) == [fs EXCEPT !.dirs = @ \union Prefixes(dir)]

\* fs::read(path)
FsRead(fs, path) ==
  IF DirExists(fs, path.dir) /\ fs.names[path] # NoIno
  THEN [ok |-> TRUE, err |-> "", bytes |-> fs.data[fs.names[path]]]
  ELSE [ok |-> FALSE, err |-> "NotFound", bytes |-> <<>>]

\* fs::File::create(path): open for writing, create if absent, truncate if present
FsCreate(fs, path, open) ==
  IF ~DirExists(fs, path.dir)
  THEN [ok |-> FALSE, err |-> "NotFound", ino |-> NoIno, fs |-> fs]
  ELSE IF fs.names[path] # NoIno
  THEN [ok |-> TRUE, err |-> "", ino |-> fs.names[path],
        fs |-> [fs EXCEPT !.data[fs.names[path]] = <<>>]]
  ELSE LET ino == Min(Inodes \ (Linked(fs) \union open))
       IN  [ok |-> TRUE, err |-> "", ino |-> ino,
            fs |-> [fs EXCEPT !.names[path] = ino, !.data[ino] = <<>>]]

\* write(fd, chunk) at file offset off: bytes between the end of the file and
\* off read as zeros, bytes past the chunk stay
Overwrite(old, off, chunk) ==
     [i \in 1..off |-> IF i <= Len(old) THEN old[i] ELSE Zero]
  \o chunk
  \o SubSeq(old, off + Len(chunk) + 1, Len(old))

FsWrite(fs, ino, off, chunk) == [fs EXCEPT !.data[ino] = Overwrite(@, off, chunk)]

\* a rename that gives the file its new name and leaves the old name in place
FsLink(fs, from, to, open) ==
  IF DirExists(fs, from.dir) /\ fs.names[from] # NoIno
  THEN [ok |-> TRUE, err |-> "",
        fs |-> Reclaim([fs EXCEPT !.names[to] = fs.names[from]], open)]
  ELSE [ok |-> FALSE, err |-> "NotFound", fs |-> fs]

\* fs::rename(from, to)
FsRename(fs, from, to, open) ==
  IF DirExists(fs, from.dir) /\ fs.names[from] # NoIno
  THEN [ok |-> TRUE, err |-> "",
        fs |-> Reclaim([fs EXCEPT !.names[to] = fs.names[from], !.names[from] = NoIno], open)]
  ELSE [ok |-> FALSE, err |-> "NotFound", fs |-> fs]

(***************************************************************************)
(* src/src/fs.rs                                                           *)
(***************************************************************************)
FeedOk(feed) == [ok |-> TRUE, err |-> "", feed |-> feed]
FeedErr(err) == [ok |-> FALSE, err |-> err, feed |-> DefaultFeed]

read_feed(fs, path) ==
  Let(FsRead(fs, path), LAMBDA r :
    IF ~r.ok THEN FeedErr(r.err)
    ELSE Let(Decode(r.bytes), LAMBDA d :
           IF ~d.ok THEN FeedErr("Decode") ELSE FeedOk(d.val)))

\* a write_feed that writes the temporary file and never renames it
write_feed_no_rename(fs, path, feed, open) ==
  Let(IF path.dir # <<>> THEN create_dir_all(fs, path.dir) ELSE fs, LAMBDA fs1 :
  Let(FsCreate(fs1, TmpPath(path), open), LAMBDA c :
    IF ~c.ok THEN [ok |-> FALSE, err |-> c.err, fs |-> fs1, feed |-> feed]
    ELSE [ok |-> TRUE, err |-> "", fs |-> FsWrite(c.fs, c.ino, 0, Encode(feed)), feed |-> feed]))

\* a write_feed that writes into the destination itself, opened without
\* truncation: bytes of a longer previous content stay behind the new ones
write_feed_in_place(fs, path, feed, open) ==
  Let(IF path.dir # <<>> THEN create_dir_all(fs, path.dir) ELSE fs, LAMBDA fs1 :
    IF fs1.names[path] # NoIno
    THEN [ok |-> TRUE, err |-> "", fs |-> FsWrite(fs1, fs1.names[path], 0, Encode(feed)),
          feed |-> feed]
    ELSE Let(FsCreate(fs1, path, open), LAMBDA c :
           [ok |-> TRUE, err |-> "", fs |-> FsWrite(c.fs, c.ino, 0, Encode(feed)),
            feed |-> feed]))

\* write_feed run from its first to its last statement with no other process
\* touching the file system in between
write_feed(fs, path, feed, open) ==
  Let(IF path.dir # <<>> THEN create_dir_all(fs, path.dir) ELSE fs, LAMBDA fs1 :
  Let(FsCreate(fs1, TmpPath(path), open), LAMBDA c :
    IF ~c.ok THEN [ok |-> FALSE, err |-> c.err, fs |-> fs1, feed |-> feed]
    ELSE
  Let(FsWrite(c.fs, c.ino, 0, Encode(feed)), LAMBDA fs2 :
  Let(FsRename(fs2, TmpPath(path), path, open), LAMBDA r :
    IF ~r.ok THEN [ok |-> FALSE, err |-> r.err, fs |-> fs2, feed |-> feed]
    ELSE [ok |-> TRUE, err |-> "", fs |-> r.fs, feed |-> feed]))))

(***************************************************************************)
(* src/src/lib.rs: add                                                     *)
(***************************************************************************)
\* variants of is_not_found: no error is NotFound, every error is
never_not_found(err) == FALSE
always_not_found(err) == TRUE

is_not_found(err) == err = "NotFound"

RemoveAt(s, pos) == SubSeq(s, 1, pos - 1) \o SubSeq(s, pos + 1, Len(s))

\* variants of the two searches that find nothing
PositionByIdNone(links, uid) == 0
PositionByUrlNone(links, url) == 0

\* feed.links.iter().position(|l| l.id == uid); 0 when there is none
PositionById(links, uid) ==
  IF \E i \in 1..Len(links) : links[i].id = uid
  THEN Min({i \in 1..Len(links) : links[i].id = uid}) ELSE 0

\* a variant of the search by url that finds the last link with the url
PositionByUrlLast(links, url) ==
  IF \E i \in 1..Len(links) : links[i].url = url
  THEN CHOOSE i \in 1..Len(links) :
         links[i].url = url /\ \A j \in 1..Len(links) : links[j].url = url => j <= i
  ELSE 0

\* feed.links.iter().position(|l| l.url == url); 0 when there is none
PositionByUrl(links, url) ==
  IF \E i \in 1..Len(links) : links[i].url = url
  THEN Min({i \in 1..Len(links) : links[i].url = url}) ELSE 0

\* a variant of update_link_in_place that keeps the old summary and via when the
\* call gives none, and adds the tags of the call to the old ones
update_link_merge(feed, pos, title, url, date, summary, tags, via) ==
  LET old == feed.links[pos]
      item == [old EXCEPT !.title = title, !.url = url, !.datetime = date,
                          !.summary = IF IsSome(summary) THEN summary ELSE @,
                          !.tags = @ \o tags,
                          !.via = IF IsSome(via) THEN via ELSE @]
  IN  [feed |-> [feed EXCEPT !.links = <<item>> \o RemoveAt(feed.links, pos)],
       item |-> item]

\* a variant of update_link_in_place that leaves the link where it is
update_link_no_move(feed, pos, title, url, date, summary, tags, via) ==
  LET item == [feed.links[pos] EXCEPT !.title = title, !.url = url, !.datetime = date,
                                      !.summary = summary, !.tags = tags, !.via = via]
  IN  [feed |-> [feed EXCEPT !.links[pos] = item], item |-> item]

\* a variant of update_link_in_place that stamps every link with the date
update_link_stamp_all(feed, pos, title, url, date, summary, tags, via) ==
  LET item == [feed.links[pos] EXCEPT !.title = title, !.url = url, !.datetime = date,
                                      !.summary = summary, !.tags = tags, !.via = via]
      rest == RemoveAt(feed.links, pos)
  IN  [feed |-> [feed EXCEPT !.links =
                   <<item>> \o [i \in 1..Len(rest) |-> [rest[i] EXCEPT !.datetime = date]]],
       item |-> item]

update_link_in_place(feed, pos, title, url, date, summary, tags, via) ==
  LET item == [feed.links[pos] EXCEPT !.title = title, !.url = url, !.datetime = date,
                                      !.summary = summary, !.tags = tags, !.via = via]
  IN  [feed |-> [feed EXCEPT !.links = <<item>> \o RemoveAt(feed.links, pos)],
       item |-> item]

\* a variant of insert_new_link_front that puts the link at the back
insert_new_link_back(feed, id, title, url, datetime, summary, tags, via) ==
  LET link == [id |-> id, title |-> title, url |-> url, datetime |-> datetime,
               summary |-> summary, tags |-> tags, via |-> via]
  IN  [feed |-> [feed EXCEPT !.links = feed.links \o <<link>>], item |-> link]

\* a variant of insert_new_link_front that keeps the new link only
insert_new_link_alone(feed, id, title, url, datetime, summary, tags, via) ==
  LET link == [id |-> id, title |-> title, url |-> url, datetime |-> datetime,
               summary |-> summary, tags |-> tags, via |-> via]
  IN  [feed |-> [feed EXCEPT !.links = <<link>>], item |-> link]

insert_new_link_front(feed, id, title, url, datetime, summary, tags, via) ==
  LET link == [id |-> id, title |-> title, url |-> url, datetime |-> datetime,
               summary |-> summary, tags |-> tags, via |-> via]
  IN  [feed |-> [feed EXCEPT !.links = <<link>> \o feed.links], item |-> link]

\* a variant of the match on id_opt in which an id that no link has falls back to
\* the search by url
UpsertUrlFallback(feed, a, datetime, uid) ==
  LET byId == IF IsSome(a.id) THEN PositionById(feed.links, Unwrap(a.id)) ELSE 0
      pos == IF byId # 0 THEN byId ELSE PositionByUrl(feed.links, a.url)
  IN  IF pos # 0
      THEN update_link_in_place(feed, pos, a.title, a.url, Some(datetime),
                                a.summary, a.tags, a.via) @@ [branch |-> "update_by_url"]
      ELSE insert_new_link_front(feed, IF IsSome(a.id) THEN Unwrap(a.id) ELSE uid, a.title,
                                 a.url, Some(datetime), a.summary, a.tags, a.via)
             @@ [branch |-> "insert_new"]

\* the match on id_opt: the mutated feed, the resulting link and the branch taken
Upsert(feed, a, datetime, uid) ==
  IF IsSome(a.id)
  THEN LET pos == PositionById(feed.links, Unwrap(a.id))
       IN  IF pos # 0
           THEN update_link_in_place(feed, pos, a.title, a.url, Some(datetime),
                                     a.summary, a.tags, a.via) @@ [branch |-> "update_by_id"]
           ELSE insert_new_link_front(feed, Unwrap(a.id), a.title, a.url, Some(datetime),
                                      a.summary, a.tags, a.via) @@ [branch |-> "insert_with_id"]
  ELSE LET pos == PositionByUrl(feed.links, a.url)
       IN  IF pos # 0
           THEN update_link_in_place(feed, pos, a.title, a.url, Some(datetime),
                                     a.summary, a.tags, a.via) @@ [branch |-> "update_by_url"]
           ELSE insert_new_link_front(feed, uid, a.title, a.url, Some(datetime),
                                      a.summary, a.tags, a.via) @@ [branch |-> "insert_new"]

\* a variant of read or init that never reads the file
ReadOrInitFresh(fs, file) == FeedOk([DefaultFeed EXCEPT !.version = 1])

\* read or init feed
ReadOrInit(fs, file) ==
  Let(read_feed(fs, file), LAMBDA r :
    IF r.ok THEN r
    ELSE IF is_not_found(r.err) THEN FeedOk([DefaultFeed EXCEPT !.version = 1])
    ELSE r)

AddErr(err, fs) ==
  [ok |-> FALSE, err |-> err, fs |-> fs, link |-> None, feed |-> None, branch |-> ""]

\* add(file, title, url, summary, tags, via, id) run to its return with no other
\* process in between.  now: the local time read (None when now_local fails);
\* uid: the value Uuid::new_v4 returns
add(fs, file, a, now, uid, open) ==
  IF ~IsSome(now) THEN AddErr("LocalOffset", fs)
  ELSE Let(ReadOrInit(fs, file), LAMBDA r :
         IF ~r.ok THEN AddErr(r.err, fs)
         ELSE
       Let(Upsert(r.feed, a, Unwrap(now), uid), LAMBDA u :
       Let(write_feed(fs, file, u.feed, open), LAMBDA w :
         IF ~w.ok THEN AddErr(w.err, w.fs)
         ELSE [ok |-> TRUE, err |-> "", fs |-> w.fs, link |-> Some(u.item),
               feed |-> Some(w.feed), branch |-> u.branch])))

(***************************************************************************)
(* src/src/lib.rs: list.  The tags list compares are sequences of          *)
(* characters, each a one-character string.                                *)
(***************************************************************************)
AsciiUpper ==
  <<"A", "B", "C", "D", "E", "F", "G", "H", "I", "J", "K", "L", "M",
    "N", "O", "P", "Q", "R", "S", "T", "U", "V", "W", "X", "Y", "Z">>
AsciiLower ==
  <<"a", "b", "c", "d", "e", "f", "g", "h", "i", "j", "k", "l", "m",
    "n", "o", "p", "q", "r", "s", "t", "u", "v", "w", "x", "y", "z">>

\* char::to_ascii_lowercase
char_to_ascii_lowercase(c) ==
  IF \E i \in DOMAIN AsciiUpper : AsciiUpper[i] = c
  THEN AsciiLower[CHOOSE i \in DOMAIN AsciiUpper : AsciiUpper[i] = c]
  ELSE c

\* str::to_ascii_lowercase
to_ascii_lowercase(str) == [i \in 1..Len(str) |-> char_to_ascii_lowercase(str[i])]

\* char::is_whitespace, for the characters of the model
is_whitespace(c) == c \in {" ", "\t", "\n"}

RECURSIVE trim_start(_)
trim_start(str) ==
  IF str # <<>> /\ is_whitespace(Head(str)) THEN trim_start(Tail(str)) ELSE str

RECURSIVE trim_end(_)
trim_end(str) ==
  IF str # <<>> /\ is_whitespace(str[Len(str)])
  THEN trim_end(SubSeq(str, 1, Len(str) - 1)) ELSE str

\* str::trim
trim(str) == trim_end(trim_start(str))

\* a variant of eq_ignore_ascii_case that compares the characters as they are
eq_exact(a, b) == a = b

\* str::eq_ignore_ascii_case
eq_ignore_ascii_case(a, b) ==
  /\ Len(a) = Len(b)
  /\ \A i \in 1..Len(a) : char_to_ascii_lowercase(a[i]) = char_to_ascii_lowercase(b[i])

\* ts.iter().map(|t| t.trim().to_ascii_lowercase()).filter(|t| !t.is_empty()).collect()
RECURSIVE TagNorms(_)
TagNorms(ts) ==
  IF ts = <<>> THEN <<>>
  ELSE Let(to_ascii_lowercase(trim(Head(ts))), LAMBDA t :
         (IF t # <<>> THEN <<t>> ELSE <<>>) \o TagNorms(Tail(ts)))

\* a variant of tag_ok that takes a filter left with no tag as no filter
tag_ok_unless_empty(l, tag_norms) ==
  IF IsSome(tag_norms) /\ Unwrap(tag_norms) # <<>>
  THEN \E i \in 1..Len(l.tags) : \E j \in 1..Len(Unwrap(tag_norms)) :
         eq_ignore_ascii_case(l.tags[i], Unwrap(tag_norms)[j])
  ELSE TRUE

\* let tag_ok = match &tag_norms { .. }
tag_ok(l, tag_norms) ==
  IF IsSome(tag_norms)
  THEN \E i \in 1..Len(l.tags) : \E j \in 1..Len(Unwrap(tag_norms)) :
         eq_ignore_ascii_case(l.tags[i], Unwrap(tag_norms)[j])
  ELSE TRUE

\* a variant of date_ok that compares the calendar day only
date_ok_same_day(l, date_filter) ==
  IF IsSome(date_filter)
  THEN IF IsSome(l.datetime)
       THEN \A k \in {"year", "month", "day"} :
              Unwrap(l.datetime)[k] = Unwrap(date_filter)[k]
       ELSE FALSE
  ELSE TRUE

\* let date_ok = match date_filter { .. }
date_ok(l, date_filter) ==
  IF IsSome(date_filter)
  THEN IF IsSome(l.datetime) THEN Unwrap(l.datetime) = Unwrap(date_filter) ELSE FALSE
  ELSE TRUE

\* a variant of the closure of retain that keeps a link one filter accepts
retain_either(l, tag_norms, date_filter) ==
  IF IsSome(tag_norms) /\ IsSome(date_filter)
  THEN tag_ok(l, tag_norms) \/ date_ok(l, date_filter)
  ELSE tag_ok(l, tag_norms) /\ date_ok(l, date_filter)

\* the closure of feed.links.retain: tag_ok && date_ok
retain_closure(l, tag_norms, date_filter) ==
  tag_ok(l, tag_norms) /\ date_ok(l, date_filter)

ListErr(err, store) == [ok |-> FALSE, err |-> err, fs |-> store, feed |-> None]

\* a variant of list that writes the filtered feed back to the file
list_and_save(store, file, tags, datetime) ==
  Let(read_feed(store, file), LAMBDA r :
    IF ~r.ok THEN ListErr(r.err, store)
    ELSE Let(IF IsSome(tags) THEN Some(TagNorms(Unwrap(tags))) ELSE None, LAMBDA tag_norms :
         Let([r.feed EXCEPT !.links =
                SelectSeq(@, LAMBDA l : retain_closure(l, tag_norms, datetime))], LAMBDA f :
           [ok |-> TRUE, err |-> "", fs |-> write_feed(store, file, f, {}).fs,
            feed |-> Some(f)])))

\* list(file, tags, datetime)
list(store, file, tags, datetime) ==
  Let(read_feed(store, file), LAMBDA r :
    IF ~r.ok THEN ListErr(r.err, store)
    ELSE Let(IF IsSome(tags) THEN Some(TagNorms(Unwrap(tags))) ELSE None, LAMBDA tag_norms :
           [ok |-> TRUE, err |-> "", fs |-> store,
            feed |-> Some([r.feed EXCEPT !.links =
                       SelectSeq(@, LAMBDA l : retain_closure(l, tag_norms, datetime))])]))

(***************************************************************************)
(* src/src/lib.rs: projection to RSS.  A call either returns a value or    *)
(* panics; Returns and Panics are the two outcomes.                        *)
(***************************************************************************)
Returns(val) == [panic |-> FALSE, val |-> val]
Panics == [panic |-> TRUE, val |-> None]

\* chrono: a year divisible by 4 and not by 100, or by 400
is_leap_year(year) == year % 4 = 0 /\ (year % 100 # 0 \/ year % 400 = 0)

\* chrono: the number of days of the month
days_in_month(year, month) ==
  IF month = 2 THEN (IF is_leap_year(year) THEN 29 ELSE 28)
  ELSE IF month \in {4, 6, 9, 11} THEN 30 ELSE 31

\* chrono NaiveDate::from_ymd_opt(year, month, day).is_some(), for the years
\* chrono represents
ymd_opt_is_some(year, month, day) ==
  /\ month \in 1..12
  /\ day >= 1 /\ day <= days_in_month(year, month)

\* chrono NaiveTime::from_hms_opt(hour, min, sec).is_some()
hms_opt_is_some(hours, minutes, seconds) == hours < 24 /\ minutes < 60 /\ seconds < 60

MonthNames ==
  <<"Jan", "Feb", "Mar", "Apr", "May", "Jun", "Jul", "Aug", "Sep", "Oct", "Nov", "Dec">>

\* chrono DateTime::to_rfc2822 of a date and time at offset 0: the nanoseconds
\* are not part of it (the day of the week is left out of the model)
rfc2822(year, month, day, hours, minutes, seconds) ==
  <<day, MonthNames[month], year, hours, minutes, seconds, "+0000">>

\* DateTime::to_rfc2822: u32::try_from(..).ok()? returns None on a negative
\* field; TimeZone::ymd and Date::and_hms panic on a date or time that does not
\* exist
to_rfc2822(dt) ==
  IF dt.month < 0 \/ dt.day < 0 \/ dt.hours < 0 \/ dt.minutes < 0 \/ dt.seconds < 0
  THEN Returns(None)
  ELSE IF ~ymd_opt_is_some(dt.year, dt.month, dt.day) THEN Panics
  ELSE IF ~hms_opt_is_some(dt.hours, dt.minutes, dt.seconds) THEN Panics
  ELSE Returns(Some(rfc2822(dt.year, dt.month, dt.day, dt.hours, dt.minutes, dt.seconds)))

\* proto_datetime.as_ref().and_then(|dt| dt.to_rfc2822())
to_datetime(proto_datetime) ==
  IF IsSome(proto_datetime) THEN to_rfc2822(Unwrap(proto_datetime)) ELSE Returns(None)

link_to_rss_item(l) ==
  Let(to_datetime(l.datetime), LAMBDA d :
    IF d.panic THEN Panics
    ELSE Returns([title |-> Some(l.title),
                  link |-> Some(l.url),
                  description |-> IF IsSome(l.summary) THEN Some(Unwrap(l.summary).content)
                                  ELSE None,
                  categories |-> [i \in 1..Len(l.tags) |-> [name |-> l.tags[i]]],
                  guid |-> Some([value |-> <<"urn:uuid:", l.id>>, permalink |-> FALSE]),
                  pub_date |-> d.val]))

\* feed_to_rss_xml(feed, site_title, site_link): the channel that is written out
feed_to_rss_xml(feed, site_title, site_link) ==
  Let([i \in 1..Len(feed.links) |-> link_to_rss_item(feed.links[i])], LAMBDA rendered :
    IF \E i \in 1..Len(rendered) : rendered[i].panic THEN Panics
    ELSE Returns([title |-> IF feed.title = "" THEN site_title ELSE feed.title,
                  link |-> site_link,
                  description |-> <<"Feed about ", feed.title, " generated through Linkleaf">>,
                  items |-> [i \in 1..Len(rendered) |-> rendered[i].val]]))

(***************************************************************************)
(* Inputs of the calls.                                                    *)
(***************************************************************************)
Ids == {"u1", "u2", "u3"}
Urls == {"x", "y"}

\* title, summary, tags and via of a call
Payloads ==
  { [title |-> "A", summary |-> None, tags |-> <<>>, via |-> None],
    [title |-> "B", summary |-> Some(Summary("s")), tags |-> <<"Rust", "Async">>,
     via |-> Some(Via("v"))] }

Args ==
  { [title |-> p.title, url |-> u, summary |-> p.summary, tags |-> p.tags, via |-> p.via,
     id |-> i] : p \in Payloads, u \in Urls, i \in {None} \union {Some(x) : x \in Ids} }

\* local_now as a DateTime
At(sec) ==
  [year |-> 2025, month |-> 1, day |-> 2, hours |-> 12, minutes |-> 0, seconds |-> sec,
   nanos |-> 0]

\* what OffsetDateTime::now_local() may return: a time, or an error (None)
Clock == {Some(At(1)), None}

LinkIds(feed) == {feed.links[i].id : i \in 1..Len(feed.links)}

\* Uuid::new_v4(), which add calls only when no id is given and no link has the
\* url: a random 122-bit value, taken to differ from the ids in the file
NewV4(feed, a) ==
  IF ~IsSome(a.id) /\ PositionByUrl(feed.links, a.url) = 0
  THEN Ids \ LinkIds(feed) ELSE {""}

\* feeds handed to write_feed directly
SeedFeeds ==
  { [version |-> 7, title |-> "T",
     links |-> << [DefaultLink EXCEPT !.id = "u1", !.url = "x", !.title = "S"],
                  [DefaultLink EXCEPT !.id = "u2", !.url = "x", !.tags = <<"tokio">>] >>],
    [version |-> 0, title |-> "",
     links |-> << [DefaultLink EXCEPT !.id = "u1", !.url = "y", !.datetime = Some(At(0))],
                  [DefaultLink EXCEPT !.id = "u1", !.url = "x", !.summary = Some(Summary(""))] >>] }

(***************************************************************************)
(* State.                                                                  *)
(***************************************************************************)
VARIABLES
  fs,      \* the file system
  procs,   \* the concurrent callers: each one's call and its position in it
  last,    \* the call that returned last: what was asked and what came back
  hist     \* concurrent runs: the feeds handed to write_feed, the last rename

vars == <<fs, procs, last, hist>>

EmptyFs(dirs) ==
  [dirs |-> dirs, names |-> [p \in Paths |-> NoIno], data |-> [i \in Inodes |-> <<>>]]

\* the feed file holds bytes that are no feed, alone or after some fields
CorruptFs(fields) ==
  [EmptyFs(Prefixes(FeedFile.dir)) EXCEPT !.names[FeedFile] = 1, !.data[1] = fields \o <<Junk>>]

Idle ==
  [pc |-> "idle", op |-> "", feed |-> DefaultFeed, link |-> None, fd |-> NoIno, off |-> 0,
   err |-> ""]

\* args: the arguments of an add that returned Ok; link, feed: the Link returned
\* and the Feed written (add), the Feed returned (write_feed, read_feed)
NoCall ==
  [op |-> "", args |-> None, ok |-> TRUE, err |-> "", link |-> None, feed |-> None,
   branch |-> ""]

\* start: the file system a run of SaveSpec or ListSpec started from, and in
\*        StepSpec the file system the call in progress started from
\* added: the links the adds of a run of ListSpec returned, in call order
\* steps: the statements of write_feed the call in progress has run (StepSpec)
\* ops:   the adds of the run that returned Ok, in call order (RefSpec)
NoHist ==
  [saved |-> {}, renamed |-> None, calls |-> 0, start |-> None, added |-> <<>>,
   steps |-> <<>>, ops |-> <<>>]

(***************************************************************************)
(* Spec: one caller; every call runs to its return before the next starts  *)
(* (the library is synchronous and keeps nothing between calls).           *)
(***************************************************************************)
Init ==
  /\ fs \in {EmptyFs({}), EmptyFs(Prefixes(FeedFile.dir)), CorruptFs(<<>>),
            CorruptFs(IntField("version", 1))}
  /\ procs = [p \in Procs |-> Idle]
  /\ last = NoCall
  /\ hist = NoHist

\* add(FeedFile, a.title, a.url, a.summary, a.tags, a.via, a.id)
AddCall ==
  \E before \in {ReadOrInit(fs, FeedFile).feed} :
  \E a \in Args, now \in Clock :
  \E uid \in NewV4(before, a) :
  \E r \in {add(fs, FeedFile, a, now, uid, {})} :
        /\ r.ok => Len(Unwrap(r.feed).links) <= MaxLinks
        /\ fs' = r.fs
        /\ last' = [op |-> "add", args |-> IF r.ok THEN Some(a) ELSE None, ok |-> r.ok,
                    err |-> r.err, link |-> r.link, feed |-> r.feed, branch |-> r.branch]
        /\ UNCHANGED <<procs, hist>>

\* write_feed(FeedFile, f)
SaveCall ==
  \E f \in SeedFeeds :
  \E r \in {write_feed(fs, FeedFile, f, {})} :
        /\ fs' = r.fs
        /\ last' = [NoCall EXCEPT !.op = "save", !.ok = r.ok, !.err = r.err,
                                  !.feed = IF r.ok THEN Some(r.feed) ELSE None]
        /\ UNCHANGED <<procs, hist>>

\* read_feed(FeedFile)
LoadCall ==
  \E r \in {read_feed(fs, FeedFile)} :
      /\ last' = [NoCall EXCEPT !.op = "load", !.ok = r.ok, !.err = r.err,
                                !.feed = IF r.ok THEN Some(r.feed) ELSE None]
      /\ UNCHANGED <<fs, procs, hist>>

Next == AddCall \/ SaveCall \/ LoadCall

Spec == Init /\ [][Next]_vars

(***************************************************************************)
(* ConcSpec: two processes call write_feed and add on the same file with   *)
(* no coordination; their file-system calls interleave.  A process is at   *)
(*   dirs    before fs::create_dir_all            (fs.rs 101-104)          *)
(*   create  before fs::File::create(&tmp)        (fs.rs 112-113)          *)
(*   write   inside f.write_all(&buf)             (fs.rs 114)              *)
(*   sync    before f.sync_all() and the close    (fs.rs 116-117)          *)
(*   rename  before fs::rename(&tmp, &path)       (fs.rs 118-119)          *)
(*   done    after the return                                              *)
(***************************************************************************)
ConcLink(id, url) == [DefaultLink EXCEPT !.id = id, !.url = url]

\* feeds handed to write_feed by the concurrent callers
ConcFeeds ==
  { [version |-> 1, title |-> "", links |-> <<ConcLink("u1", "x")>>],
    [version |-> 2, title |-> "T", links |-> <<ConcLink("u2", "y")>>] }

ConcArgs ==
  { [title |-> "A", url |-> u, summary |-> None, tags |-> <<>>, via |-> None, id |-> None]
      : u \in Urls }

\* the concurrent callers' clock reads succeed
ConcClock == {Some(At(1))}

OpenInos == {procs[p].fd : p \in Procs} \ {NoIno}

Resting(p) == procs[p].pc \in {"idle", "done"}

\* the feed file is absent, or holds a feed an earlier write_feed put there
ConcInit ==
  /\ procs = [p \in Procs |-> Idle]
  /\ last = NoCall
  /\ \/ /\ fs = EmptyFs({})
        /\ hist = NoHist
     \/ \E f \in ConcFeeds :
          /\ fs = write_feed(EmptyFs({}), FeedFile, f, {}).fs
          /\ hist = [NoHist EXCEPT !.saved = {f}, !.renamed = Some(f)]

\* process p calls write_feed(FeedFile, f)
StartSave(p) ==
  \E f \in ConcFeeds :
    /\ Resting(p)
    /\ hist.calls < MaxCalls
    /\ procs' = [procs EXCEPT ![p] = [Idle EXCEPT !.pc = "dirs", !.op = "save", !.feed = f]]
    /\ hist' = [hist EXCEPT !.calls = @ + 1, !.saved = @ \union {f}]
    /\ UNCHANGED <<fs, last>>

\* process p calls add(FeedFile, ...): lib.rs 177-277, up to the call of write_feed
StartAdd(p) ==
  \E a \in ConcArgs, now \in ConcClock :
  \E r \in {ReadOrInit(fs, FeedFile)} :
  \E uid \in NewV4(r.feed, a) :
    /\ Resting(p)
    /\ hist.calls < MaxCalls
    /\ IF ~IsSome(now) \/ ~r.ok
       THEN /\ procs' = [procs EXCEPT ![p] =
                           [Idle EXCEPT !.pc = "done", !.op = "add",
                                        !.err = IF IsSome(now) THEN r.err ELSE "LocalOffset"]]
            /\ hist' = [hist EXCEPT !.calls = @ + 1]
       ELSE \E u \in {Upsert(r.feed, a, Unwrap(now), uid)} :
            /\ Len(u.feed.links) <= MaxLinks
            /\ procs' = [procs EXCEPT ![p] =
                           [Idle EXCEPT !.pc = "dirs", !.op = "add", !.feed = u.feed,
                                        !.link = Some(u.item)]]
            /\ hist' = [hist EXCEPT !.calls = @ + 1, !.saved = @ \union {u.feed}]
    /\ UNCHANGED <<fs, last>>

\* fs::create_dir_all(dir)
MakeDirs(p) ==
  /\ procs[p].pc = "dirs"
  /\ fs' = IF FeedFile.dir # <<>> THEN create_dir_all(fs, FeedFile.dir) ELSE fs
  /\ procs' = [procs EXCEPT ![p].pc = "create"]
  /\ UNCHANGED <<last, hist>>

\* fs::File::create(&tmp)
CreateTmp(p) ==
  /\ procs[p].pc = "create"
  /\ \E c \in {FsCreate(fs, TmpPath(FeedFile), OpenInos)} :
       /\ fs' = c.fs
       /\ procs' = [procs EXCEPT ![p] =
                      IF c.ok
                      THEN [@ EXCEPT !.fd = c.ino, !.off = 0,
                                     !.pc = IF Encode(procs[p].feed) = <<>> THEN "sync"
                                            ELSE "write"]
                      ELSE [@ EXCEPT !.pc = "done", !.err = c.err]]
  /\ UNCHANGED <<last, hist>>

\* one write(2) of f.write_all(&buf): the next n bytes of buf go to the file at
\* the description's offset
WriteTmp(p) ==
  /\ procs[p].pc = "write"
  /\ \E buf \in {Encode(procs[p].feed)} :
     \E n \in 1..(Len(buf) - procs[p].off) :
       /\ fs' = FsWrite(fs, procs[p].fd, procs[p].off,
                        SubSeq(buf, procs[p].off + 1, procs[p].off + n))
       /\ procs' = [procs EXCEPT ![p].off = @ + n,
                                 ![p].pc = IF procs[p].off + n = Len(buf) THEN "sync" ELSE "write"]
  /\ UNCHANGED <<last, hist>>

\* f.sync_all(), then f goes out of scope
SyncTmp(p) ==
  /\ procs[p].pc = "sync"
  /\ procs' = [procs EXCEPT ![p].pc = "rename", ![p].fd = NoIno, ![p].off = 0]
  /\ UNCHANGED <<fs, last, hist>>

\* fs::rename(&tmp, &path), and the return
RenameTmp(p) ==
  /\ procs[p].pc = "rename"
  /\ \E r \in {FsRename(fs, TmpPath(FeedFile), FeedFile, OpenInos)} :
       /\ fs' = r.fs
       /\ procs' = [procs EXCEPT ![p].pc = "done", ![p].err = r.err]
       /\ hist' = IF r.ok THEN [hist EXCEPT !.renamed = Some(procs[p].feed)] ELSE hist
  /\ UNCHANGED last

ConcNext ==
  \E p \in Procs : \/ StartSave(p) \/ StartAdd(p) \/ MakeDirs(p) \/ CreateTmp(p)
                   \/ WriteTmp(p) \/ SyncTmp(p) \/ RenameTmp(p)

ConcSpec == ConcInit /\ [][ConcNext]_vars

(***************************************************************************)
(* Properties.  In a step of Spec the unprimed state is the one a call     *)
(* starts in and the primed state the one it returns in.                   *)
(***************************************************************************)
\* the links add starts from: those in the file, none when there is no file
LinksBefore == ReadOrInit(fs, FeedFile).feed.links

\* the links in the file once the call has returned
LinksAfter == read_feed(fs', FeedFile).feed.links

\* the step is an add that returned Ok
AddReturnsOk == last'.op = "add" /\ last'.ok

\* s with its i-th element left out; s itself when i = 0
Without(s, i) == [k \in 1..(Len(s) - (IF i = 0 THEN 0 ELSE 1)) |-> IF i = 0 \/ k < i THEN s[k] ELSE s[k + 1]]

\* C1: after a successful add the link the call inserted or updated is at the
\* front of links, and the links behind it are the links the file held before the
\* call, in the order they had, with at most that one link taken out.
C1_NewestFirst ==
  [][AddReturnsOk =>
       \A old \in {LinksBefore}, new \in {LinksAfter} :
         /\ new # <<>>
         /\ Some(new[1]) = last'.link
         /\ \E pos \in 0..Len(old) :
              /\ Tail(new) = Without(old, pos)
              /\ pos # 0 => old[pos].id = new[1].id]_vars

\* an update has moved a link of a three-link feed to the front
C1_Witness ==
  /\ last.op = "add" /\ last.ok
  /\ last.branch \in {"update_by_id", "update_by_url"}
  /\ Len(Unwrap(last.feed).links) = 3
  /\ read_feed(fs, FeedFile).feed.links[1] = Unwrap(last.link)

\* C2: an add that supplies an id some link of the feed has leaves the number of
\* links unchanged and ends with a link of that id at index 0, which is the link
\* returned.
C2_UpsertByExistingId ==
  [][AddReturnsOk =>
       \A a \in {Unwrap(last'.args)}, old \in {LinksBefore}, new \in {LinksAfter} :
         (IsSome(a.id) /\ \E i \in 1..Len(old) : old[i].id = Unwrap(a.id)) =>
           /\ Len(new) = Len(old)
           /\ new[1].id = Unwrap(a.id)
           /\ Unwrap(last'.link).id = Unwrap(a.id)
           /\ \A x \in Ids : Cardinality({i \in 1..Len(new) : new[i].id = x})
                              = Cardinality({i \in 1..Len(old) : old[i].id = x})]_vars

\* an add by id has updated a link of a feed of two or more links
C2_Witness ==
  /\ last.op = "add" /\ last.ok /\ last.branch = "update_by_id"
  /\ IsSome(Unwrap(last.args).id)
  /\ Len(read_feed(fs, FeedFile).feed.links) >= 2
  /\ read_feed(fs, FeedFile).feed.links[1].id = Unwrap(Unwrap(last.args).id)

\* C3: an add that supplies no id and whose url is the url of a link of the feed
\* returns a Link with the id that link had, puts it at index 0 and leaves the
\* number of links unchanged.
C3_UpsertByUrl ==
  [][AddReturnsOk =>
       \A a \in {Unwrap(last'.args)}, old \in {LinksBefore}, new \in {LinksAfter} :
         (~IsSome(a.id) /\ \E i \in 1..Len(old) : old[i].url = a.url) =>
           /\ Len(new) = Len(old)
           /\ \E pos \in 1..Len(old) :
                /\ old[pos].url = a.url
                /\ new[1].id = old[pos].id
                /\ Unwrap(last'.link).id = old[pos].id
                /\ Tail(new) = Without(old, pos)]_vars

\* an add with no id has updated the link that had its url, behind another link
C3_Witness ==
  /\ last.op = "add" /\ last.ok /\ last.branch = "update_by_url"
  /\ ~IsSome(Unwrap(last.args).id)
  /\ Len(read_feed(fs, FeedFile).feed.links) >= 2
  /\ read_feed(fs, FeedFile).feed.links[1].url = Unwrap(last.args).url

\* C4: an add that supplies no id and whose url no link of the feed has grows the
\* feed by exactly one link: the new link is at index 0, and its id is an id no
\* link of the feed had.
C4_InsertNew ==
  [][AddReturnsOk =>
       \A a \in {Unwrap(last'.args)}, old \in {LinksBefore}, new \in {LinksAfter} :
         (~IsSome(a.id) /\ \A i \in 1..Len(old) : old[i].url # a.url) =>
           /\ Len(new) = Len(old) + 1
           /\ Some(new[1]) = last'.link
           /\ new[1].url = a.url
           /\ new[1].id \in Ids
           /\ \A i \in 1..Len(old) : old[i].id # new[1].id
           /\ Tail(new) = old]_vars

\* an add with no id has inserted a link in front of another
C4_Witness ==
  /\ last.op = "add" /\ last.ok /\ last.branch = "insert_new"
  /\ ~IsSome(Unwrap(last.args).id)
  /\ Len(read_feed(fs, FeedFile).feed.links) >= 2

\* C5: an add that supplies an id no link of the feed has inserts a link of that
\* id at index 0 and leaves every link the feed held as it was, behind it, also
\* when one of them has the url of the call.
C5_InsertWithId ==
  [][AddReturnsOk =>
       \A a \in {Unwrap(last'.args)}, old \in {LinksBefore}, new \in {LinksAfter} :
         (IsSome(a.id) /\ \A i \in 1..Len(old) : old[i].id # Unwrap(a.id)) =>
           /\ Len(new) = Len(old) + 1
           /\ new[1].id = Unwrap(a.id)
           /\ new[1].url = a.url
           /\ Some(new[1]) = last'.link
           /\ Tail(new) = old]_vars

\* an add by a new id has inserted a link whose url another link has too
C5_Witness ==
  /\ last.op = "add" /\ last.ok /\ last.branch = "insert_with_id"
  /\ \A l \in {read_feed(fs, FeedFile).feed.links} :
       /\ l[1].id = Unwrap(Unwrap(last.args).id)
       /\ \E i \in 2..Len(l) : l[i].url = l[1].url /\ l[i].id # l[1].id

(***************************************************************************)
(* Properties of ConcSpec: two calls of write_feed on one path, their file *)
(* system operations interleaved.                                          *)
(***************************************************************************)
\* C6: whenever the destination can be read, its bytes are the complete encoding
\* of a feed some call was given to save, at every point of two concurrent saves.
C6_NoPartialFile ==
  FsRead(fs, FeedFile).ok => \E f \in hist.saved : FsRead(fs, FeedFile).bytes = Encode(f)

\* C7: once both saves have returned, the destination holds exactly the feed of
\* the call whose rename was performed last.
C7_LastRenameWins ==
  (\A p \in Procs : procs[p].pc = "done") =>
    /\ IsSome(hist.renamed)
    /\ FsRead(fs, FeedFile).ok
    /\ FsRead(fs, FeedFile).bytes = Encode(Unwrap(hist.renamed))

(***************************************************************************)
(* Properties of Spec, continued.                                          *)
(***************************************************************************)
\* C8: when the last call was an add or a save that returned Ok, loading the
\* file returns Ok with exactly the feed that call wrote, and the Link an add
\* returned is the first link of the loaded feed.
C8_LoadAfterSave ==
  (last.op \in {"add", "save"} /\ last.ok) =>
    /\ read_feed(fs, FeedFile) = FeedOk(Unwrap(last.feed))
    /\ last.op = "add" =>
         /\ read_feed(fs, FeedFile).feed.links # <<>>
         /\ last.link = Some(read_feed(fs, FeedFile).feed.links[1])

\* an add has returned Ok on a feed that held links, and the file loads
C8_Witness ==
  /\ last.op = "add" /\ last.ok
  /\ read_feed(fs, FeedFile).ok
  /\ Len(read_feed(fs, FeedFile).feed.links) >= 2
  /\ Unwrap(last.link).tags # <<>>

\* C9: an add on a path where no file exists does not fail with NotFound, and
\* when it returns Ok the file exists and holds a feed of version 1 with an empty
\* title and exactly one link, the one returned.
C9_AddCreatesFeed ==
  [][(last'.op = "add" /\ ~FsRead(fs, FeedFile).ok /\ FsRead(fs, FeedFile).err = "NotFound") =>
       /\ last'.err # "NotFound"
       /\ last'.ok =>
            /\ read_feed(fs', FeedFile).ok
            /\ read_feed(fs', FeedFile).feed.version = 1
            /\ read_feed(fs', FeedFile).feed.title = ""
            /\ read_feed(fs', FeedFile).feed.links = <<Unwrap(last'.link)>>]_vars

\* an add has created the file, and its directories, with a one-link feed
C9_Witness ==
  /\ last.op = "add" /\ last.ok /\ last.branch \in {"insert_new", "insert_with_id"}
  /\ read_feed(fs, FeedFile).ok
  /\ Len(read_feed(fs, FeedFile).feed.links) = 1
  /\ read_feed(fs, FeedFile).feed.version = 1

\* C10: an add on a file whose bytes do not decode as a feed returns an error and
\* returns no link, and the file system is left as it was.
C10_CorruptUntouched ==
  [][(last'.op = "add" /\ FsRead(fs, FeedFile).ok /\ ~Decode(FsRead(fs, FeedFile).bytes).ok) =>
       /\ ~last'.ok
       /\ last'.link = None
       /\ fs' = fs
       /\ FsRead(fs', FeedFile).bytes = FsRead(fs, FeedFile).bytes]_vars

\* an add has failed to decode a file that starts with a well-formed field
C10_Witness ==
  /\ last.op = "add" /\ ~last.ok /\ last.err = "Decode"
  /\ FsRead(fs, FeedFile).ok
  /\ Len(FsRead(fs, FeedFile).bytes) >= 2
  /\ ~Decode(FsRead(fs, FeedFile).bytes).ok

MaxRtLinks == 2

RtLinks ==
  { DefaultLink,
    [id |-> "u1", title |-> "A", url |-> "x", datetime |-> Some(At(1)),
     summary |-> Some(Summary("s")), tags |-> <<"Rust", "Async">>, via |-> Some(Via("v"))],
    [id |-> "u2", title |-> "", url |-> "y", datetime |-> Some(DefaultDateTime),
     summary |-> Some(Summary("")), tags |-> <<"">>, via |-> Some(Via(""))],
    [id |-> "u1", title |-> "B", url |-> "x",
     datetime |-> Some([At(0) EXCEPT !.year = -1, !.month = 13, !.nanos = 5]),
     summary |-> None, tags |-> <<"a", "a">>, via |-> Some(Via("v"))],
    [id |-> "", title |-> "", url |-> "", datetime |-> None,
     summary |-> Some(Summary("s")), tags |-> <<>>, via |-> None] }

RECURSIVE SeqsUpTo(_, _)
SeqsUpTo(S, n) ==
  IF n = 0 THEN {<<>>}
  ELSE SeqsUpTo(S, n - 1) \union {Append(q, x) : q \in SeqsUpTo(S, n - 1), x \in S}

RtFeeds ==
  { [version |-> v, title |-> t, links |-> ls] :
      v \in {0, 1, 7}, t \in {"", "T"}, ls \in SeqsUpTo(RtLinks, MaxRtLinks) }

\* store with the temporary file of FeedFile holding the bytes an interrupted
\* write_feed had written
StaleTmp(store, bytes) ==
  Let(FsCreate(store, TmpPath(FeedFile), {}), LAMBDA c : FsWrite(c.fs, c.ino, 0, bytes))

RtStores ==
  {EmptyFs({}), EmptyFs({<<"nested">>}), EmptyFs(Prefixes(FeedFile.dir))}
    \union {write_feed(EmptyFs({}), FeedFile, f, {}).fs : f \in SeedFeeds}

RtInit ==
  /\ fs \in RtStores \union {StaleTmp(st, <<Junk>>) : st \in {x \in RtStores : DirExists(x, FeedFile.dir)}}
  /\ procs = [p \in Procs |-> Idle]
  /\ last = NoCall
  /\ hist = [NoHist EXCEPT !.start = Some(fs)]

\* write_feed(FeedFile, f), once
RtSave ==
  /\ hist.saved = {}
  /\ \E f \in RtFeeds :
     \E r \in {write_feed(fs, FeedFile, f, {})} :
       /\ fs' = r.fs
       /\ last' = [NoCall EXCEPT !.op = "save", !.ok = r.ok, !.err = r.err,
                                 !.feed = IF r.ok THEN Some(r.feed) ELSE None]
       /\ hist' = [hist EXCEPT !.saved = {f}]
       /\ UNCHANGED procs

\* read_feed(FeedFile) after the write_feed
RtLoad ==
  /\ last.op = "save"
  /\ \E r \in {read_feed(fs, FeedFile)} :
       /\ last' = [NoCall EXCEPT !.op = "load", !.ok = r.ok, !.err = r.err,
                                 !.feed = IF r.ok THEN Some(r.feed) ELSE None]
       /\ UNCHANGED <<fs, procs, hist>>

RtNext == RtSave \/ RtLoad

SaveSpec == RtInit /\ [][RtNext]_vars

\* C12: a write_feed that returns Ok returns the feed it was given, and the
\* read_feed that follows returns Ok with a feed equal to it in every field.
C12_SaveLoadRoundTrip ==
  \A f \in hist.saved :
    /\ (last.op = "save" /\ last.ok) =>
         /\ last.feed = Some(f)
         /\ read_feed(fs, FeedFile) = FeedOk(f)
    /\ last.op = "load" =>
         /\ last.ok
         /\ last.feed = Some(f)
         /\ \A k \in DOMAIN f :  Unwrap(last.feed)[k] = f[k]

\* a feed of version 0 with a link of empty strings, an empty summary and a
\* default datetime in front of a link with no datetime has been saved and loaded
C12_Witness ==
  /\ last.op = "load" /\ last.ok
  /\ \E f \in hist.saved :
       /\ f.version = 0 /\ Len(f.links) = 2
       /\ f.links[1].datetime = Some(DefaultDateTime)
       /\ f.links[1].summary = Some(Summary(""))
       /\ f.links[2].datetime = None
       /\ last.feed = Some(f)

\* C13: after a write_feed that returned Ok no file has the temporary name, and
\* the destination holds the encoding of the feed saved and nothing else, also
\* when the destination or the temporary file existed before.
C13_NoTmpLeft ==
  (last.op = "save" /\ last.ok) =>
    /\ fs.names[TmpPath(FeedFile)] = NoIno
    /\ ~FsRead(fs, TmpPath(FeedFile)).ok
    /\ \A f \in hist.saved :
         /\ FsRead(fs, FeedFile).ok
         /\ FsRead(fs, FeedFile).bytes = Encode(f)
         /\ Decode(FsRead(fs, FeedFile).bytes) = Decoded(f)

\* a feed has been saved over a longer feed, with a temporary file in the way
C13_Witness ==
  /\ last.op = "save" /\ last.ok
  /\ \A st \in {Unwrap(hist.start)}, f \in hist.saved :
       /\ FsRead(st, FeedFile).ok
       /\ FsRead(st, TmpPath(FeedFile)).ok
       /\ Len(Encode(f)) < Len(FsRead(st, FeedFile).bytes)
       /\ f.links # <<>>

\* C14: a write_feed to a destination whose parent directory does not exist
\* returns Ok, and afterwards the directory and all its ancestors exist and the
\* destination is a file holding the feed.
C14_ParentDirsCreated ==
  (last.op = "save" /\ ~DirExists(Unwrap(hist.start), FeedFile.dir)) =>
    /\ last.ok
    /\ Prefixes(FeedFile.dir) \subseteq fs.dirs
    /\ Unwrap(hist.start).dirs \subseteq fs.dirs
    /\ FsRead(fs, FeedFile).ok
    /\ \A f \in hist.saved : read_feed(fs, FeedFile) = FeedOk(f)

\* a feed has been saved where no directory at all existed
C14_Witness ==
  /\ last.op = "save" /\ last.ok
  /\ Unwrap(hist.start).dirs = {}
  /\ <<"nested", "dir">> \in fs.dirs
  /\ FsRead(fs, FeedFile).ok

(***************************************************************************)
(* ListSpec: adds with no id and list calls on one file, one call at a     *)
(* time.  The file starts absent, corrupt or holding ListSeed.             *)
(***************************************************************************)
MaxAdds == 3

tRust == <<"R", "u", "s", "t">>
tAsync == <<"A", "s", "y", "n", "c">>
tTokio == <<"T", "o", "k", "i", "o">>
trust == <<"r", "u", "s", "t">>
tasync == <<"a", "s", "y", "n", "c">>
ttokio == <<"t", "o", "k", "i", "o">>
tdb == <<"d", "b">>
tzzz == <<"z", "z", "z">>
tPadded == <<" ", "R", "U", "S", "T", "\t">>
tBlank == <<" ", "\t">>

\* a stored feed: two links of the same day and different seconds, one whose tag
\* has a blank in front, one with no datetime
ListSeed ==
  [version |-> 7, title |-> "T",
   links |-> << [DefaultLink EXCEPT !.id = "u1", !.url = "x", !.tags = <<tRust, tAsync>>,
                                    !.datetime = Some(At(2))],
                [DefaultLink EXCEPT !.id = "u2", !.url = "y", !.tags = <<tTokio>>,
                                    !.datetime = Some(At(1))],
                [DefaultLink EXCEPT !.id = "u3", !.url = "w", !.tags = <<<<" ">> \o trust, tdb>>] >>]

\* the adds of examples/filter.rs: A [rust, async], B [tokio], C [db, rust]
ListArgs ==
  { [title |-> "A", url |-> "x", summary |-> None, tags |-> <<trust, tasync>>, via |-> None,
     id |-> None],
    [title |-> "B", url |-> "y", summary |-> None, tags |-> <<ttokio>>, via |-> None,
     id |-> None],
    [title |-> "C", url |-> "z", summary |-> None, tags |-> <<tdb, tRust>>, via |-> None,
     id |-> None] }

ListClock == {Some(At(1))}

\* the tags argument of list
TagFilters ==
  { None, Some(<<>>), Some(<<trust>>), Some(<<tzzz, trust>>), Some(<<tPadded>>),
    Some(<<tBlank, <<>>, tTokio>>), Some(<<tBlank, <<>> >>) }

\* the datetime argument of list
DateFilters == {None, Some(At(1)), Some(At(2)), Some([At(1) EXCEPT !.nanos = 5])}

ListInit ==
  /\ fs \in {EmptyFs({}), CorruptFs(<<>>), write_feed(EmptyFs({}), FeedFile, ListSeed, {}).fs}
  /\ procs = [p \in Procs |-> Idle]
  /\ last = NoCall
  /\ hist = [NoHist EXCEPT !.start = Some(fs)]

\* add(FeedFile, a.title, a.url, None, a.tags, None, None)
ListAdd ==
  /\ Len(hist.added) < MaxAdds
  /\ \E before \in {ReadOrInit(fs, FeedFile).feed} :
     \E a \in ListArgs, now \in ListClock :
     \E uid \in NewV4(before, a) :
     \E r \in {add(fs, FeedFile, a, now, uid, {})} :
       /\ r.ok => Len(Unwrap(r.feed).links) <= MaxLinks
       /\ fs' = r.fs
       /\ last' = [op |-> "add", args |-> IF r.ok THEN Some(a) ELSE None, ok |-> r.ok,
                   err |-> r.err, link |-> r.link, feed |-> r.feed, branch |-> r.branch]
       /\ hist' = IF r.ok THEN [hist EXCEPT !.added = Append(@, Unwrap(r.link))] ELSE hist
       /\ UNCHANGED procs

\* list(FeedFile, tags, datetime)
ListCall ==
  \E tags \in TagFilters, datetime \in DateFilters :
  \E r \in {list(fs, FeedFile, tags, datetime)} :
    /\ fs' = r.fs
    /\ last' = [NoCall EXCEPT !.op = "list", !.ok = r.ok, !.err = r.err, !.feed = r.feed,
                              !.args = Some([tags |-> tags, datetime |-> datetime])]
    /\ UNCHANGED <<procs, hist>>

ListNext == ListAdd \/ ListCall

ListSpec == ListInit /\ [][ListNext]_vars

(***************************************************************************)
(* Properties of ListSpec.  In a list step the stored links are those of   *)
(* the file in the unprimed state, the returned feed is last'.feed.        *)
(***************************************************************************)
StoredFeed == read_feed(fs, FeedFile).feed
ListReturnsOk == last'.op = "list" /\ last'.ok
Returned == Unwrap(last'.feed)
Filter == Unwrap(last'.args)

\* str without the blanks at its two ends
Stripped(str) ==
  LET solid == {i \in 1..Len(str) : str[i] \notin {" ", "\t", "\n"}}
  IN  IF solid = {} THEN <<>>
      ELSE SubSeq(str, CHOOSE i \in solid : \A j \in solid : i <= j,
                       CHOOSE i \in solid : \A j \in solid : j <= i)

\* the requested tags: those given, stripped, the empty ones dropped
Requested(tags) == {Stripped(tags[i]) : i \in 1..Len(tags)} \ {<<>>}

\* the same letters, whatever their case
SameIgnoringCase(a, b) ==
  /\ Len(a) = Len(b)
  /\ \A i \in 1..Len(a) :
       \/ a[i] = b[i]
       \/ \E k \in 1..26 : {a[i], b[i]} = {AsciiUpper[k], AsciiLower[k]}

PassesTagFilter(l, tags) ==
  \/ tags = None
  \/ \E i \in 1..Len(l.tags) : \E n \in Requested(Unwrap(tags)) : SameIgnoringCase(l.tags[i], n)

PassesDateFilter(l, datetime) ==
  \/ datetime = None
  \/ /\ l.datetime # None
     /\ \A k \in Range(DateTimeFields) : Unwrap(l.datetime)[k] = Unwrap(datetime)[k]

\* the k-th smallest element of the set of numbers S
Nth(S, k) == CHOOSE i \in S : Cardinality({j \in S : j <= i}) = k

\* C15: with no date filter, list returns a stored link if and only if no tag
\* filter is given or one of the link's tags equals, ignoring case, one of the
\* requested tags; on links tagged {Rust, Async}, {Tokio} and { rust, db} the
\* filters [rust] and [zzz, rust] return exactly the first link.
C15_TagFilter ==
  [][(ListReturnsOk /\ Filter.datetime = None) =>
       /\ \A i \in 1..Len(StoredFeed.links) :
            (\E k \in 1..Len(Returned.links) : Returned.links[k] = StoredFeed.links[i])
              <=> PassesTagFilter(StoredFeed.links[i], Filter.tags)
       /\ (StoredFeed = ListSeed /\ Filter.tags \in {Some(<<trust>>), Some(<<tzzz, trust>>)})
            => Returned.links = <<ListSeed.links[1]>>]_vars

\* a filter of one padded upper-case tag has returned two of three stored links
C15_Witness ==
  /\ last.op = "list" /\ last.ok
  /\ Unwrap(last.args) = [tags |-> Some(<<tPadded>>), datetime |-> None]
  /\ Len(read_feed(fs, FeedFile).feed.links) = 3
  /\ Len(Unwrap(last.feed).links) = 2
  /\ \A k \in 1..2 : \E i \in 1..2 : Unwrap(last.feed).links[k].tags[i] \in {trust, tRust}

\* C16: with no tag filter, list returns a stored link if and only if no date
\* filter is given or the link has a datetime whose seven fields all equal those
\* of the filter.
C16_DateFilter ==
  [][(ListReturnsOk /\ Filter.tags = None) =>
       \A i \in 1..Len(StoredFeed.links) :
         (\E k \in 1..Len(Returned.links) : Returned.links[k] = StoredFeed.links[i])
           <=> PassesDateFilter(StoredFeed.links[i], Filter.datetime)]_vars

\* a date filter has returned one link and left out a link of the same day and
\* another second, and a link with no datetime
C16_Witness ==
  /\ last.op = "list" /\ last.ok
  /\ Unwrap(last.args) = [tags |-> None, datetime |-> Some(At(1))]
  /\ Len(Unwrap(last.feed).links) = 1
  /\ \A stored \in {read_feed(fs, FeedFile).feed.links} :
       /\ \E i \in 1..Len(stored) : stored[i].datetime = Some(At(2))
       /\ \E i \in 1..Len(stored) : stored[i].datetime = None

\* C17: the links list returns are the stored links that pass the tag filter and
\* the date filter, each once, in the order they are stored; version and title
\* are those of the stored feed; with no filter all stored links are returned.
C17_FilteredSubsequence ==
  [][ListReturnsOk =>
       \A stored \in {StoredFeed.links} :
       \A keep \in {{i \in 1..Len(stored) : /\ PassesTagFilter(stored[i], Filter.tags)
                                            /\ PassesDateFilter(stored[i], Filter.datetime)}} :
         /\ Len(Returned.links) = Cardinality(keep)
         /\ \A k \in 1..Len(Returned.links) : Returned.links[k] = stored[Nth(keep, k)]
         /\ Returned.version = StoredFeed.version
         /\ Returned.title = StoredFeed.title
         /\ (Filter.tags = None /\ Filter.datetime = None) => Returned.links = stored]_vars

\* both filters given: two of three stored links returned, a third one passes
\* the date filter alone
C17_Witness ==
  /\ last.op = "list" /\ last.ok
  /\ Unwrap(last.args) = [tags |-> Some(<<trust>>), datetime |-> Some(At(1))]
  /\ Len(Unwrap(last.feed).links) = 2
  /\ \A stored \in {read_feed(fs, FeedFile).feed.links} :
       /\ Len(stored) = 3
       /\ \A i \in 1..3 : stored[i].datetime = Some(At(1))

\* the adds of the run so far were made on a store with no file and each one
\* inserted a link: their urls differ from one another
AddedDistinct ==
  /\ ~FsRead(Unwrap(hist.start), FeedFile).ok
  /\ \A i, j \in 1..Len(hist.added) : i # j => hist.added[i].url # hist.added[j].url

\* C18: when links of pairwise distinct urls were added one after another, with
\* no id, to a store with no file, list with a tag filter and no date filter
\* returns the added links that pass the tag filter, the last added first; after
\* A [rust, async], B [tokio], C [db, Rust] the filter [rust] returns C, then A.
C18_ReverseInsertionOrder ==
  (last.op = "list" /\ last.ok /\ AddedDistinct
     /\ Unwrap(last.args).tags # None /\ Unwrap(last.args).datetime = None) =>
    \A got \in {Unwrap(last.feed).links} :
    \A match \in {{i \in 1..Len(hist.added) :
                     PassesTagFilter(hist.added[i], Unwrap(last.args).tags)}} :
      /\ Len(got) = Cardinality(match)
      /\ \A k \in 1..Len(got) : got[k] = hist.added[Nth(match, Len(got) + 1 - k)]
      /\ ([i \in 1..Len(hist.added) |-> hist.added[i].title] = <<"A", "B", "C">>
            /\ Unwrap(last.args).tags = Some(<<trust>>))
           => [k \in 1..Len(got) |-> got[k].title] = <<"C", "A">>

\* A, B and C were added in this order to a store with no file and the filter
\* [rust] has returned two links
C18_Witness ==
  /\ last.op = "list" /\ last.ok /\ AddedDistinct
  /\ [i \in 1..Len(hist.added) |-> hist.added[i].title] = <<"A", "B", "C">>
  /\ Unwrap(last.args) = [tags |-> Some(<<trust>>), datetime |-> None]
  /\ Len(Unwrap(last.feed).links) = 2
  /\ Unwrap(last.feed).links[1].title = "C"

\* C19: a list call, whatever its filters and whether it returns a feed or an
\* error, leaves the file system as it was: the bytes of the file or its
\* absence, the temporary file, the directories.
C19_ListReadOnly ==
  [][last'.op = "list" =>
       /\ fs' = fs
       /\ FsRead(fs', FeedFile) = FsRead(fs, FeedFile)
       /\ FsRead(fs', TmpPath(FeedFile)) = FsRead(fs, TmpPath(FeedFile))
       /\ fs'.dirs = fs.dirs]_vars

\* a list that returned fewer links than are stored has left the three stored
\* links in the file
C19_Witness ==
  /\ last.op = "list" /\ last.ok
  /\ Len(Unwrap(last.feed).links) = 0
  /\ Len(read_feed(fs, FeedFile).feed.links) = 3
  /\ fs.names[TmpPath(FeedFile)] = NoIno

(***************************************************************************)
(* RssSpec: one call of feed_to_rss_xml on a feed of two links, the first  *)
(* with a date that exists, the second with a datetime from RssDateTimes   *)
(* or none.                                                                *)
(***************************************************************************)
RssDateTimes ==
  { [year |-> y, month |-> mo, day |-> d, hours |-> h, minutes |-> mi, seconds |-> sec,
     nanos |-> n] :
      y \in {2024, 2025}, mo \in {-1, 0, 1, 2, 12, 13}, d \in {-1, 0, 1, 29, 30, 31, 32},
      h \in {-1, 0, 23, 24}, mi \in {0, 59, 60}, sec \in {0, 59, 60}, n \in {-1, 0} }

RssFeeds ==
  { [version |-> 1, title |-> t,
     links |-> << [DefaultLink EXCEPT !.id = "u1", !.title = "A", !.url = "x",
                                      !.datetime = Some(At(1)),
                                      !.summary = Some(Summary("s")),
                                      !.tags = <<"rust", "rss">>],
                  [DefaultLink EXCEPT !.id = "u2", !.url = "y", !.datetime = dt] >>] :
      t \in {"", "T"}, dt \in {None} \union {Some(x) : x \in RssDateTimes} }

RssInit ==
  /\ fs = EmptyFs({})
  /\ procs = [p \in Procs |-> Idle]
  /\ last = NoCall
  /\ hist = NoHist

\* feed_to_rss_xml(&feed, "Site", "https://site"), once: last.args is the feed,
\* last.feed the channel returned, last.err is "panic" when the call panicked
RssRender ==
  /\ last = NoCall
  /\ \E feed \in RssFeeds :
     \E r \in {feed_to_rss_xml(feed, "Site", "https://site")} :
       /\ last' = [NoCall EXCEPT !.op = "rss", !.args = Some(feed), !.ok = ~r.panic,
                                 !.err = IF r.panic THEN "panic" ELSE "",
                                 !.feed = IF r.panic THEN None ELSE Some(r.val)]
       /\ UNCHANGED <<fs, procs, hist>>

RssNext == RssRender

RssSpec == RssInit /\ [][RssNext]_vars

\* every field of dt is in its calendar or clock range and the day exists
InRange(dt) ==
  /\ dt.month \in 1..12
  /\ dt.day \in 1..(CASE dt.month \in {4, 6, 9, 11} -> 30
                      [] dt.month = 2 ->
                           IF dt.year % 4 = 0 /\ (dt.year % 100 # 0 \/ dt.year % 400 = 0)
                           THEN 29 ELSE 28
                      [] OTHER -> 31)
  /\ dt.hours \in 0..23
  /\ dt.minutes \in 0..59
  /\ dt.seconds \in 0..59
  /\ dt.nanos \in 0..999999999

\* C20: rendering a feed does not panic and returns a channel, and the item of
\* a link has no pubDate exactly when the link has no datetime or a field of its
\* datetime is outside its calendar or clock range.
C20_PubDateOmitted ==
  last.op = "rss" =>
    /\ last.err # "panic"
    /\ last.ok
    /\ \A feed \in {Unwrap(last.args)} :
       \A i \in 1..Len(feed.links) :
         Unwrap(last.feed).items[i].pub_date = None
           <=> (feed.links[i].datetime = None \/ ~InRange(Unwrap(feed.links[i].datetime)))

\* the items of the channel returned are those of the links of the feed given,
\* one for one and in order
ItemsMatchLinks ==
  \A feed \in {Unwrap(last.args)}, channel \in {Unwrap(last.feed)} :
    /\ Len(channel.items) = Len(feed.links)
    /\ \A i \in 1..Len(feed.links) :
       \A l \in {feed.links[i]}, item \in {channel.items[i]} :
         /\ item.title = Some(l.title)
         /\ item.link = Some(l.url)
         /\ IsSome(item.description) <=> IsSome(l.summary)
         /\ IsSome(l.summary) => item.description = Some(Unwrap(l.summary).content)
         /\ Len(item.categories) = Len(l.tags)
         /\ \A k \in 1..Len(l.tags) : item.categories[k].name = l.tags[k]
         /\ item.guid = Some([value |-> <<"urn:uuid:", l.id>>, permalink |-> FALSE])
         /\ (l.summary = None /\ l.tags = <<>> /\ l.datetime = None) =>
              /\ item.description = None
              /\ item.categories = <<>>
              /\ item.pub_date = None
              /\ IsSome(item.guid)

\* C21: for every feed, feed_to_rss_xml returns a channel with exactly one item
\* per link, in feed order, each with the title and url of its link, a
\* description exactly when the link has a summary, one category per tag in tag
\* order and the guid urn:uuid:<id> marked non-permalink; a link with no summary,
\* no tags and no datetime gives an item with a guid and nothing else optional.
C21_OneItemPerLink ==
  last.op = "rss" => (last.ok /\ IsSome(last.feed) /\ ItemsMatchLinks)

(***************************************************************************)
(* Properties of Spec, continued: what an add leaves alone.                *)
(***************************************************************************)
\* the step is an add with an id a stored link has, and with no tags
UpdateByIdNoTags ==
  /\ AddReturnsOk
  /\ last'.branch = "update_by_id"
  /\ Unwrap(last'.args).tags = <<>>

Me == Min(Procs)

StepFeeds == ConcFeeds \union {DefaultFeed}

StepStores ==
  RtStores \union {CorruptFs(<<>>)}
    \union {StaleTmp(st, <<Junk>>) : st \in {x \in RtStores : DirExists(x, FeedFile.dir)}}

Ran(name, ok) == [step |-> name, ok |-> ok]

\* the call returns: Ok(feed) / Ok(link) when err is "", Err otherwise; a file
\* still open is closed
StepReturn(p, err) ==
  /\ procs' = [procs EXCEPT ![p] = [@ EXCEPT !.pc = "done", !.err = err, !.fd = NoIno,
                                             !.off = 0]]
  /\ last' = [NoCall EXCEPT !.op = procs[p].op, !.ok = (err = ""), !.err = err,
                            !.feed = IF err = "" THEN Some(procs[p].feed) ELSE None,
                            !.link = IF err = "" THEN procs[p].link ELSE None]

StepInit ==
  /\ fs \in StepStores
  /\ procs = [p \in Procs |-> Idle]
  /\ last = NoCall
  /\ hist = [NoHist EXCEPT !.start = Some(fs)]

\* write_feed(FeedFile, f) is called
BeginSave(p) ==
  /\ Resting(p)
  /\ hist.calls < MaxCalls
  /\ \E f \in StepFeeds :
       /\ procs' = [procs EXCEPT ![p] = [Idle EXCEPT !.pc = "dirs", !.op = "save", !.feed = f]]
       /\ hist' = [hist EXCEPT !.calls = @ + 1, !.saved = {f}, !.start = Some(fs),
                               !.steps = <<>>]
  /\ UNCHANGED <<fs, last>>

\* add(FeedFile, ...) is called and runs up to its call of write_feed
\* (lib.rs 177-277), or returns the error of the clock or of read_feed
BeginAdd(p) ==
  /\ Resting(p)
  /\ hist.calls < MaxCalls
  /\ \E a \in ConcArgs, now \in Clock :
     \E r \in {ReadOrInit(fs, FeedFile)} :
     \E uid \in NewV4(r.feed, a) :
       IF ~IsSome(now) \/ ~r.ok
       THEN /\ procs' = [procs EXCEPT ![p] =
                           [Idle EXCEPT !.pc = "done", !.op = "add",
                                        !.err = IF IsSome(now) THEN r.err ELSE "LocalOffset"]]
            /\ last' = [NoCall EXCEPT !.op = "add", !.ok = FALSE,
                                      !.err = IF IsSome(now) THEN r.err ELSE "LocalOffset"]
            /\ hist' = [hist EXCEPT !.calls = @ + 1, !.saved = {}, !.start = Some(fs),
                                    !.steps = <<>>]
            /\ UNCHANGED fs
       ELSE \E u \in {Upsert(r.feed, a, Unwrap(now), uid)} :
            /\ Len(u.feed.links) <= MaxLinks
            /\ procs' = [procs EXCEPT ![p] =
                           [Idle EXCEPT !.pc = "dirs", !.op = "add", !.feed = u.feed,
                                        !.link = Some(u.item)]]
            /\ hist' = [hist EXCEPT !.calls = @ + 1, !.saved = {u.feed}, !.start = Some(fs),
                                    !.steps = <<>>]
            /\ UNCHANGED <<fs, last>>

\* fs::create_dir_all(dir)?: when it fails it may have made some of the
\* directories
DirsStep(p) ==
  /\ procs[p].pc = "dirs"
  /\ \/ /\ fs' = IF FeedFile.dir # <<>> THEN create_dir_all(fs, FeedFile.dir) ELSE fs
        /\ procs' = [procs EXCEPT ![p].pc = "encode"]
        /\ hist' = [hist EXCEPT !.steps = Append(@, Ran("dirs", TRUE))]
        /\ UNCHANGED last
     \/ /\ FeedFile.dir # <<>>
        /\ \E k \in 0..(Len(FeedFile.dir) - 1) :
             fs' = [fs EXCEPT !.dirs = @ \union Prefixes(SubSeq(FeedFile.dir, 1, k))]
        /\ StepReturn(p, "CreateDir")
        /\ hist' = [hist EXCEPT !.steps = Append(@, Ran("dirs", FALSE))]

\* feed.encode(&mut buf)?
EncodeStep(p) ==
  /\ procs[p].pc = "encode"
  /\ \E ok \in BOOLEAN :
       /\ IF ok THEN procs' = [procs EXCEPT ![p].pc = "create"] /\ UNCHANGED last
                ELSE StepReturn(p, "Encode")
       /\ hist' = [hist EXCEPT !.steps = Append(@, Ran("encode", ok))]
  /\ UNCHANGED fs

\* fs::File::create(&tmp)?
CreateStep(p) ==
  /\ procs[p].pc = "create"
  /\ \E c \in {FsCreate(fs, TmpPath(FeedFile), OpenInos)} :
     \E ok \in {c.ok, FALSE} :
       /\ IF ok
          THEN /\ fs' = c.fs
               /\ procs' = [procs EXCEPT ![p] =
                              [@ EXCEPT !.fd = c.ino, !.off = 0,
                                        !.pc = IF Encode(procs[p].feed) = <<>> THEN "sync"
                                               ELSE "write"]]
               /\ UNCHANGED last
          ELSE /\ fs' = fs
               /\ StepReturn(p, IF c.ok THEN "Io" ELSE c.err)
       /\ hist' = [hist EXCEPT !.steps = Append(@, Ran("create", ok))]

\* a variant of WriteStep that drops the error of write_all and goes on
WriteStepUnchecked(p) ==
  /\ procs[p].pc = "write"
  /\ \/ \E buf \in {Encode(procs[p].feed)} :
        \E n \in 1..(Len(buf) - procs[p].off) :
          /\ fs' = FsWrite(fs, procs[p].fd, procs[p].off,
                           SubSeq(buf, procs[p].off + 1, procs[p].off + n))
          /\ procs' = [procs EXCEPT ![p].off = @ + n,
                                    ![p].pc = IF procs[p].off + n = Len(buf) THEN "sync"
                                              ELSE "write"]
          /\ hist' = [hist EXCEPT !.steps = Append(@, Ran("write", TRUE))]
          /\ UNCHANGED last
     \/ /\ procs' = [procs EXCEPT ![p].pc = "sync"]
        /\ hist' = [hist EXCEPT !.steps = Append(@, Ran("write", FALSE))]
        /\ UNCHANGED <<fs, last>>

\* one write(2) of f.write_all(&buf)?: the next n bytes of buf go to the file,
\* or the write fails
WriteStep(p) ==
  /\ procs[p].pc = "write"
  /\ \/ \E buf \in {Encode(procs[p].feed)} :
        \E n \in 1..(Len(buf) - procs[p].off) :
          /\ fs' = FsWrite(fs, procs[p].fd, procs[p].off,
                           SubSeq(buf, procs[p].off + 1, procs[p].off + n))
          /\ procs' = [procs EXCEPT ![p].off = @ + n,
                                    ![p].pc = IF procs[p].off + n = Len(buf) THEN "sync"
                                              ELSE "write"]
          /\ hist' = [hist EXCEPT !.steps = Append(@, Ran("write", TRUE))]
          /\ UNCHANGED last
     \/ /\ StepReturn(p, "Io")
        /\ hist' = [hist EXCEPT !.steps = Append(@, Ran("write", FALSE))]
        /\ UNCHANGED fs

\* f.sync_all()?, then f goes out of scope
SyncStep(p) ==
  /\ procs[p].pc = "sync"
  /\ \E ok \in BOOLEAN :
       /\ IF ok
          THEN /\ procs' = [procs EXCEPT ![p].pc = "rename", ![p].fd = NoIno, ![p].off = 0]
               /\ UNCHANGED last
          ELSE StepReturn(p, "Io")
       /\ hist' = [hist EXCEPT !.steps = Append(@, Ran("sync", ok))]
  /\ UNCHANGED fs

\* fs::rename(&tmp, &path)?, and the return
RenameStep(p) ==
  /\ procs[p].pc = "rename"
  /\ \E r \in {FsRename(fs, TmpPath(FeedFile), FeedFile, OpenInos)} :
     \E ok \in {r.ok, FALSE} :
       /\ fs' = IF ok THEN r.fs ELSE fs
       /\ StepReturn(p, IF ok THEN "" ELSE IF r.ok THEN "Rename" ELSE r.err)
       /\ hist' = [hist EXCEPT !.steps = Append(@, Ran("rename", ok))]

StepNext ==
  \E p \in {Me} : \/ BeginSave(p) \/ BeginAdd(p) \/ DirsStep(p) \/ EncodeStep(p)
                  \/ CreateStep(p) \/ WriteStep(p) \/ SyncStep(p) \/ RenameStep(p)

StepSpec == StepInit /\ [][StepNext]_vars

(***************************************************************************)
(* Properties of StepSpec.                                                 *)
(***************************************************************************)
\* the order the spec gives the steps of a save
SaveOrder == <<"dirs", "encode", "create", "write", "sync", "rename">>

Place(name) == CHOOSE k \in DOMAIN SaveOrder : SaveOrder[k] = name

\* what a reader finds at the destination
Destination(store) == FsRead(store, FeedFile)

\* the steps run so far are in the order of SaveOrder, each one once but for the
\* writes of one write_all, none after a step that failed, and none left out
\* but the write of an empty encoding
InSaveOrder ==
  \A q \in {hist.steps} :
    /\ \A i \in 1..Len(q) : q[i].step \in Range(SaveOrder)
    /\ \A i \in 1..(Len(q) - 1) :
         /\ q[i].ok
         /\ \/ Place(q[i + 1].step) = Place(q[i].step) + 1
            \/ q[i].step = "write" /\ q[i + 1].step = "write"
            \/ /\ q[i].step = "create" /\ q[i + 1].step = "sync"
               /\ \A f \in hist.saved : Encode(f) = <<>>
    /\ q # <<>> => q[1].step = "dirs"

\* the rename is attempted only once the temporary file holds the whole encoding
\* and write_all and sync_all have returned Ok
RenameAfterFlush ==
  \A q \in {hist.steps} :
    ((\E i \in 1..Len(q) : q[i].step = "rename") \/ procs[Me].pc = "rename") =>
      /\ \E i \in 1..Len(q) : q[i].step = "sync" /\ q[i].ok
      /\ \A i \in 1..Len(q) : q[i].step \in {"create", "write", "sync"} => q[i].ok
      /\ procs[Me].pc = "rename" =>
           \A f \in hist.saved : FsRead(fs, TmpPath(FeedFile)).bytes = Encode(f)

\* C23: within one save the steps run in the order create the parent
\* directories, encode, create and write the temporary file, flush, rename; no
\* step but a rename that succeeds changes what is at the destination path; and
\* the rename is attempted only after the write and the flush have succeeded.
C23_SaveStepOrder ==
  /\ [](InSaveOrder /\ RenameAfterFlush)
  /\ [][Destination(fs') # Destination(fs) =>
          /\ procs[Me].pc = "rename"
          /\ hist'.steps = Append(hist.steps, Ran("rename", TRUE))]_vars

\* a save has run all its steps, with a write_all of two writes, and has
\* replaced a destination that held another feed
C23_Witness ==
  /\ procs[Me].pc = "done" /\ procs[Me].err = ""
  /\ Len(hist.steps) = 7
  /\ hist.steps[4].step = "write" /\ hist.steps[5].step = "write"
  /\ hist.steps[7] = Ran("rename", TRUE)
  /\ Destination(Unwrap(hist.start)).ok
  /\ Destination(fs).ok
  /\ Destination(fs) # Destination(Unwrap(hist.start))

\* C24: when a save, or an add, has returned an error, at whatever step, what
\* is at the destination path is exactly what was there when the call started:
\* the same bytes, or no file, and so the same persisted feed.
C24_FailedCallKeepsDestination ==
  (procs[Me].pc = "done" /\ procs[Me].err # "") =>
    /\ ~last.ok /\ last.err = procs[Me].err
    /\ Destination(fs) = Destination(Unwrap(hist.start))
    /\ read_feed(fs, FeedFile) = read_feed(Unwrap(hist.start), FeedFile)

\* the save of an add has failed at the rename, with the whole new feed in the
\* temporary file and the feed of before at the destination
C24_Witness ==
  /\ procs[Me].pc = "done" /\ procs[Me].op = "add" /\ procs[Me].err = "Rename"
  /\ hist.steps[Len(hist.steps)] = Ran("rename", FALSE)
  /\ read_feed(fs, FeedFile).ok
  /\ read_feed(fs, TmpPath(FeedFile)).ok
  /\ Len(read_feed(fs, TmpPath(FeedFile)).feed.links)
       = Len(read_feed(fs, FeedFile).feed.links) + 1

(***************************************************************************)
(* RefSpec: adds on a path where no file exists at first, one call at a    *)
(* time.  hist.ops lists the calls that returned Ok: the arguments, the    *)
(* time read and the id of the link returned.                              *)
(***************************************************************************)
RefInit ==
  /\ fs \in {EmptyFs({}), EmptyFs(Prefixes(FeedFile.dir))}
  /\ procs = [p \in Procs |-> Idle]
  /\ last = NoCall
  /\ hist = [NoHist EXCEPT !.start = Some(fs)]

\* add(FeedFile, a.title, a.url, a.summary, a.tags, a.via, a.id)
RefAdd ==
  /\ Len(hist.ops) < MaxAdds
  /\ \E before \in {ReadOrInit(fs, FeedFile).feed} :
     \E a \in Args, now \in Clock :
     \E uid \in NewV4(before, a) :
     \E r \in {add(fs, FeedFile, a, now, uid, {})} :
       /\ r.ok => Len(Unwrap(r.feed).links) <= MaxLinks
       /\ fs' = r.fs
       /\ last' = [op |-> "add", args |-> IF r.ok THEN Some(a) ELSE None, ok |-> r.ok,
                   err |-> r.err, link |-> r.link, feed |-> r.feed, branch |-> r.branch]
       /\ hist' = IF r.ok
                  THEN [hist EXCEPT !.ops = Append(@, [args |-> a, now |-> Unwrap(now),
                                                       id |-> Unwrap(r.link).id])]
                  ELSE hist
       /\ UNCHANGED procs

RefNext == RefAdd

RefSpec == RefInit /\ [][RefNext]_vars

(***************************************************************************)
(* Properties of RefSpec.                                                  *)
(***************************************************************************)
\* the feed a first add starts from
FreshFeed == [version |-> 1, title |-> "", links |-> <<>>]

\* the upsert of the spec on a feed in memory: the first link with the id given
\* or, with no id, with the url given is rewritten and moved to the front;
\* when there is none a link is put in front, with the id given or a new one
InMemoryUpsert(feed, op) ==
  LET a == op.args
      hit == {i \in 1..Len(feed.links) :
                IF IsSome(a.id) THEN feed.links[i].id = Unwrap(a.id)
                ELSE feed.links[i].url = a.url}
      link(id) == [id |-> id, title |-> a.title, url |-> a.url, datetime |-> Some(op.now),
                   summary |-> a.summary, tags |-> a.tags, via |-> a.via]
  IN  IF hit # {}
      THEN [feed EXCEPT !.links = <<link(feed.links[Min(hit)].id)>> \o Without(@, Min(hit))]
      ELSE [feed EXCEPT !.links = <<link(IF IsSome(a.id) THEN Unwrap(a.id) ELSE op.id)>> \o @]

RECURSIVE Replay(_, _)
Replay(feed, ops) ==
  IF ops = <<>> THEN feed ELSE Replay(InMemoryUpsert(feed, Head(ops)), Tail(ops))

\* C25: after any sequence of adds that returned Ok on a path where no file
\* existed, the feed loaded from the file is the feed the same upserts give, in
\* the same order, on a feed in memory that starts with version 1, an empty
\* title and no links; before the first of them there is no file.
C25_FileIsReplayOfAdds ==
  IF hist.ops = <<>>
  THEN ~FsRead(fs, FeedFile).ok
  ELSE read_feed(fs, FeedFile) = FeedOk(Replay(FreshFeed, hist.ops))

\* three adds have returned Ok, the last an update by id behind which another
\* link is stored
C25_Witness ==
  /\ Len(hist.ops) = 3
  /\ last.op = "add" /\ last.ok /\ last.branch = "update_by_id"
  /\ Len(read_feed(fs, FeedFile).feed.links) = 2
  /\ hist.ops[1].args.id = None
  /\ read_feed(fs, FeedFile).feed.links[1].summary # read_feed(fs, FeedFile).feed.links[2].summary

(***************************************************************************)
(* Properties of Spec, continued: which link an add touches.               *)
(***************************************************************************)
\* the indexes of the links with the url
WithUrl(links, url) == {i \in 1..Len(links) : links[i].url = url}

\* C26: when two or more links have the url of an add that gives no id, the one
\* at the lowest index, and only that one, is updated: it is moved to index 0
\* with its id, and every other link, those with the same url included, is
\* left as it was, in the order it was in.
C26_FirstUrlMatchOnly ==
  [][AddReturnsOk =>
       \A a \in {Unwrap(last'.args)}, old \in {LinksBefore}, new \in {LinksAfter} :
         (~IsSome(a.id) /\ Cardinality(WithUrl(old, a.url)) >= 2) =>
           \A first \in {Min(WithUrl(old, a.url))} :
             /\ new[1].id = old[first].id
             /\ new[1].title = a.title
             /\ last'.link = Some(new[1])
             /\ Len(new) = Len(old)
             /\ \A i \in 1..Len(old) :
                  i # first => new[IF i < first THEN i + 1 ELSE i] = old[i]
             /\ Cardinality(WithUrl(new, a.url)) = Cardinality(WithUrl(old, a.url))]_vars

\* an add with no id has updated u2, the first of two links with the url x, and
\* left u1, which has the same url, behind it
C26_Witness ==
  /\ last.op = "add" /\ last.ok /\ last.branch = "update_by_url"
  /\ Unwrap(last.args).url = "x"
  /\ \A f \in {read_feed(fs, FeedFile).feed} :
       /\ f.version = 7 /\ Len(f.links) = 2
       /\ f.links[1].id = "u2" /\ f.links[1].url = "x"
       /\ f.links[2].id = "u1" /\ f.links[2].url = "x"
       /\ f.links[2].title # Unwrap(last.args).title

\* the ids of the links, each as often as it occurs
IdCount(links, id) == Cardinality({i \in 1..Len(links) : links[i].id = id})

\* C27: no add removes a link.  Over every add the number of links does not
\* decrease: an add that returns Ok raises it by 0 (update) or by 1 (insert),
\* an add that returns an error leaves the file as it is; and every id the feed
\* held before an add it holds after it, as often as before.
C27_NoLinkRemoved ==
  [][last'.op = "add" =>
       \A old \in {LinksBefore} :
         IF last'.ok
         THEN \A new \in {LinksAfter} :
                /\ Len(new) - Len(old) \in {0, 1}
                /\ Len(new) = Len(old) <=> last'.branch \in {"update_by_id", "update_by_url"}
                /\ Len(new) = Len(old) + 1 <=> last'.branch \in {"insert_new", "insert_with_id"}
                /\ LinkIds([links |-> old]) \subseteq LinkIds([links |-> new])
                /\ \A id \in LinkIds([links |-> old]) : IdCount(new, id) >= IdCount(old, id)
         ELSE fs' = fs]_vars

\* an insert has raised a feed of two links to three, and the two are still there
C27_Witness ==
  /\ last.op = "add" /\ last.ok /\ last.branch \in {"insert_new", "insert_with_id"}
  /\ \A l \in {read_feed(fs, FeedFile).feed.links} :
       /\ Len(l) = 3
       /\ l[2].id # l[1].id /\ l[3].id # l[1].id /\ l[2].id # l[3].id

\* C28: an add that returns Ok changes at most one link: the links of the file
\* behind index 0 afterwards are the links of before, each with all its fields
\* and in the order of before, less the one updated if the call was an update;
\* and when the file existed before the call the feed has the version and the
\* title it had.
C28_AtMostOneLinkChanged ==
  [][AddReturnsOk =>
       \A before \in {read_feed(fs, FeedFile)}, after \in {read_feed(fs', FeedFile)} :
       \A old \in {IF before.ok THEN before.feed.links ELSE <<>>}, new \in {after.feed.links} :
         /\ after.ok
         /\ \E pos \in 0..Len(old) :
              /\ pos = 0 <=> last'.branch \in {"insert_new", "insert_with_id"}
              /\ pos # 0 => old[pos].id = new[1].id
              /\ Len(new) = Len(old) + (IF pos = 0 THEN 1 ELSE 0)
              /\ \A k \in (1..Len(old)) \ {pos} :
                 \A field \in DOMAIN DefaultLink :
                   new[IF pos = 0 \/ k < pos THEN k + 1 ELSE k][field] = old[k][field]
         /\ before.ok =>
              /\ after.feed.version = before.feed.version
              /\ after.feed.title = before.feed.title]_vars

\* an update has rewritten the first link of a saved feed of version 7 and title
\* T; the link behind it has no datetime, as it was saved
C28_Witness ==
  /\ last.op = "add" /\ last.ok /\ last.branch \in {"update_by_id", "update_by_url"}
  /\ \A f \in {read_feed(fs, FeedFile).feed} :
       /\ f.version = 7 /\ f.title = "T" /\ Len(f.links) = 2
       /\ f.links[1].id = "u1" /\ IsSome(f.links[1].datetime)
       /\ f.links[2] = [DefaultLink EXCEPT !.id = "u2", !.url = "x", !.tags = <<"tokio">>]

\* the load of the add that has returned failed, and not with NotFound
LoadFailed ==
  /\ ~read_feed(Unwrap(hist.start), FeedFile).ok
  /\ read_feed(Unwrap(hist.start), FeedFile).err # "NotFound"

\* the add that has returned called write_feed
SaveAttempted == hist.steps # <<>>

\* the add that has returned called write_feed, and a step of it failed
SaveFailed == SaveAttempted /\ ~hist.steps[Len(hist.steps)].ok

\* C29: an add returns an error only when its load failed with an error other
\* than NotFound or when its save failed: no other step, the reading of the
\* local time in particular, makes it fail; and whenever the load returned a
\* feed or NotFound the save is attempted.
C29_AddFailsOnlyOnLoadOrSave ==
  (procs[Me].op = "add" /\ procs[Me].pc = "done") =>
    /\ procs[Me].err # "" => (LoadFailed \/ SaveFailed)
    /\ ~LoadFailed => SaveAttempted

(***************************************************************************)
(* PathSpec: the temporary path write_feed derives from its destination    *)
(* (fs.rs 110), for two destinations.  Here a path is its parent directory *)
(* and its file name, the name a sequence of pieces in which every dot is  *)
(* a piece of its own: feed.pb is <<"feed", ".", "pb">>.                   *)
(***************************************************************************)
Dot == "."

\* the index of the last dot of the name, 0 when it has none
LastDot(name) ==
  IF \E i \in 1..Len(name) : name[i] = Dot
  THEN CHOOSE i \in 1..Len(name) : name[i] = Dot /\ \A j \in (i + 1)..Len(name) : name[j] # Dot
  ELSE 0

\* Path::file_stem: the name up to its last dot; the whole name when it has no
\* dot or only a leading one
file_stem(name) ==
  IF LastDot(name) <= 1 THEN name ELSE SubSeq(name, 1, LastDot(name) - 1)

\* Path::with_extension(ext): the extension is replaced, not appended
with_extension_of_name(path, ext) ==
  [path EXCEPT !.name = file_stem(@) \o (IF ext = <<>> THEN <<>> ELSE <<Dot>> \o ext)]

\* let tmp = path.with_extension("pb.tmp");
tmp_of(path) == with_extension_of_name(path, <<"pb", Dot, "tmp">>)

DestinationNames ==
  { <<"feed", Dot, "pb">>, <<"feed", Dot, "bin">>, <<"feed">>, <<"links", Dot, "pb">>,
    <<"feed", Dot, "v1", Dot, "pb">>, <<"feed", Dot, "pb", Dot, "tmp">>, <<Dot, "feed">>,
    <<"feed", Dot, "tar", Dot, "gz">> }

Destinations == { [dir |-> d, name |-> n] : d \in {<<>>, <<"nested", "dir">>}, n \in DestinationNames }

PathInit ==
  /\ fs = EmptyFs({})
  /\ procs = [p \in Procs |-> Idle]
  /\ last = NoCall
  /\ hist = NoHist

\* two saves, to a and to b, derive their temporary paths: last.args the
\* destinations, last.feed the temporary paths
DeriveTmp ==
  /\ last = NoCall
  /\ \E a \in Destinations, b \in Destinations :
       last' = [NoCall EXCEPT !.op = "tmp", !.args = Some(<<a, b>>),
                              !.feed = Some(<<tmp_of(a), tmp_of(b)>>)]
  /\ UNCHANGED <<fs, procs, hist>>

PathNext == DeriveTmp

PathSpec == PathInit /\ [][PathNext]_vars

\* t is the path d with something appended to its name
Appended(d, t) ==
  /\ t.dir = d.dir
  /\ Len(t.name) > Len(d.name)
  /\ SubSeq(t.name, 1, Len(d.name)) = d.name

\* C30: for every destination, with the extension pb, with another extension or
\* with none, the temporary path of a save is the destination path with a
\* suffix appended, and the saves to two different destinations have different
\* temporary paths.
C30_TmpIsDestinationPlusSuffix ==
  last.op = "tmp" =>
    \A d \in {Unwrap(last.args)}, t \in {Unwrap(last.feed)} :
      /\ Appended(d[1], t[1])
      /\ Appended(d[2], t[2])
      /\ d[1] # d[2] => t[1] # t[2]

(***************************************************************************)
(* Properties of RefSpec, continued: what a run of adds keeps distinct.    *)
(***************************************************************************)
\* no two elements of the sequence s are equal
Distinct(s) == \A i \in 1..Len(s) : \A j \in 1..Len(s) : i # j => s[i] # s[j]

\* the ids and the urls of the links of the file, in storage order
StoredIds ==
  LET links == read_feed(fs, FeedFile).feed.links IN [i \in 1..Len(links) |-> links[i].id]
StoredUrls ==
  LET links == read_feed(fs, FeedFile).feed.links IN [i \in 1..Len(links) |-> links[i].url]

\* C31: after any sequence of adds, one at a time, on a path where no file
\* existed, some with an id given and some with a generated id that differs from
\* the ids in the feed, no two links of the file have the same id.
C31_NoTwoLinksShareId ==
  read_feed(fs, FeedFile).ok => Distinct(StoredIds)

\* three adds have returned Ok: the first generated an id, the second gave that
\* id and another url and updated the link, the third generated a second id
C31_Witness ==
  /\ Len(hist.ops) = 3
  /\ hist.ops[1].args.id = None
  /\ hist.ops[2].args.id = Some(hist.ops[1].id)
  /\ hist.ops[2].args.url # hist.ops[1].args.url
  /\ hist.ops[3].args.id = None
  /\ hist.ops[3].id # hist.ops[1].id
  /\ Len(StoredIds) = 2

\* every add of the run that returned Ok omitted the id
AllOmitId == \A i \in 1..Len(hist.ops) : hist.ops[i].args.id = None

\* C32: after any sequence of adds, one at a time, on a path where no file
\* existed, all of them without an id, no two links of the file have the same
\* url.
C32_NoTwoLinksShareUrl ==
  (AllOmitId /\ read_feed(fs, FeedFile).ok) => Distinct(StoredUrls)

\* three adds without an id have returned Ok, the last an update of the link
\* with its url, behind which the link of the other url is stored
C32_Witness ==
  /\ Len(hist.ops) = 3
  /\ AllOmitId
  /\ last.op = "add" /\ last.ok /\ last.branch = "update_by_url"
  /\ Len(StoredUrls) = 2
  /\ hist.ops[1].args.url = hist.ops[3].args.url
  /\ hist.ops[2].args.url # hist.ops[3].args.url

(***************************************************************************)
(* TimeSpec: adds on a path where no file exists at first, one call at a   *)
(* time, each reading the clock: any of three times or a failure, in any   *)
(* order.  hist.ops lists the calls that returned Ok with the time read.   *)
(***************************************************************************)
\* three values of local_now as DateTime, in the order of time: 12:00:59,
\* 12:01:00 and 12:01:00 and 5 ns
Times ==
  << [At(59) EXCEPT !.minutes = 0],
     [At(0) EXCEPT !.minutes = 1],
     [At(0) EXCEPT !.minutes = 1, !.nanos = 5] >>

\* what OffsetDateTime::now_local() may return
TimeClock == {Some(Times[k]) : k \in DOMAIN Times} \union {None}

\* adds on two urls, with no id or with one of two ids
TimeArgs ==
  { [title |-> "A", url |-> u, summary |-> None, tags |-> <<>>, via |-> None, id |-> i]
      : u \in Urls, i \in {None, Some("u1"), Some("u2")} }

TimeInit ==
  /\ fs \in {EmptyFs({}), EmptyFs(Prefixes(FeedFile.dir))}
  /\ procs = [p \in Procs |-> Idle]
  /\ last = NoCall
  /\ hist = [NoHist EXCEPT !.start = Some(fs)]

\* add(FeedFile, a.title, a.url, a.summary, a.tags, a.via, a.id)
TimeAdd ==
  /\ Len(hist.ops) < MaxAdds
  /\ \E before \in {ReadOrInit(fs, FeedFile).feed} :
     \E a \in TimeArgs, now \in TimeClock :
     \E uid \in NewV4(before, a) :
     \E r \in {add(fs, FeedFile, a, now, uid, {})} :
       /\ r.ok => Len(Unwrap(r.feed).links) <= MaxLinks
       /\ fs' = r.fs
       /\ last' = [op |-> "add", args |-> IF r.ok THEN Some(a) ELSE None, ok |-> r.ok,
                   err |-> r.err, link |-> r.link, feed |-> r.feed, branch |-> r.branch]
       /\ hist' = IF r.ok
                  THEN [hist EXCEPT !.ops = Append(@, [args |-> a, now |-> Unwrap(now),
                                                       id |-> Unwrap(r.link).id])]
                  ELSE hist
       /\ UNCHANGED procs

TimeNext == TimeAdd

TimeSpec == TimeInit /\ [][TimeNext]_vars

(***************************************************************************)
(* Properties of TimeSpec.                                                 *)
(***************************************************************************)
\* the time a is not after the time b: a and b are equal, or a is smaller in
\* the first of year, month, day, hours, minutes, seconds, nanos where they differ
NotAfter(a, b) ==
  \/ a = b
  \/ \E k \in 1..Len(DateTimeFields) :
       /\ a[DateTimeFields[k]] < b[DateTimeFields[k]]
       /\ \A j \in 1..(k - 1) : a[DateTimeFields[j]] = b[DateTimeFields[j]]

\* the clock did not go backwards between the adds of the run that returned Ok
ClockNeverBackwards ==
  \A i \in 1..Len(hist.ops) : \A j \in 1..Len(hist.ops) :
    i < j => NotAfter(hist.ops[i].now, hist.ops[j].now)

\* C33: when the clock the adds read never goes backwards, after any sequence
\* of adds, one at a time, on a path where no file existed, every link of the
\* file has a datetime and the datetimes do not increase from index 0 to the
\* end of links.
C33_StorageOrderIsTimeOrder ==
  \A r \in {read_feed(fs, FeedFile)} :
    (ClockNeverBackwards /\ r.ok) =>
      /\ \A i \in 1..Len(r.feed.links) : IsSome(r.feed.links[i].datetime)
      /\ \A i \in 1..Len(r.feed.links) : \A j \in 1..Len(r.feed.links) :
           i < j => NotAfter(Unwrap(r.feed.links[j].datetime),
                             Unwrap(r.feed.links[i].datetime))

\* three adds at the three times in their order have returned Ok: two inserts,
\* then an update of the link stored last, which is now first with the last time
C33_Witness ==
  /\ Len(hist.ops) = 3
  /\ \A k \in 1..3 : hist.ops[k].now = Times[k]
  /\ last.op = "add" /\ last.ok /\ last.branch \in {"update_by_id", "update_by_url"}
  /\ hist.ops[3].id = hist.ops[1].id
  /\ \A r \in {read_feed(fs, FeedFile)} :
       /\ Len(r.feed.links) = 2
       /\ r.feed.links[1].id = hist.ops[1].id
       /\ r.feed.links[1].datetime = Some(Times[3])
       /\ r.feed.links[2].datetime = Some(Times[2])

(***************************************************************************)
(* Properties of ListSpec, continued: a tag filter that requests nothing.  *)
(***************************************************************************)
\* the list call that returned last had a tag filter of which no requested tag
\* is left: an empty list, or entries that are all empty or blank
FilterRequestsNothing ==
  /\ last.op = "list" /\ last.ok
  /\ IsSome(Unwrap(last.args).tags)
  /\ Requested(Unwrap(Unwrap(last.args).tags)) = {}

\* C34: a list call whose tag filter is an empty list, or has only empty and
\* blank entries, returns no link, whatever the file stores and whatever the
\* date filter; with the same file and date filter and no tag filter, list
\* returns every link the date filter accepts.
C34_EmptyTagFilterMatchesNothing ==
  FilterRequestsNothing =>
    /\ Unwrap(last.feed).links = <<>>
    /\ \A r \in {list(fs, FeedFile, None, Unwrap(last.args).datetime)} :
         /\ r.ok
         /\ \A i \in 1..Len(read_feed(fs, FeedFile).feed.links) :
              PassesDateFilter(read_feed(fs, FeedFile).feed.links[i],
                               Unwrap(last.args).datetime)
                => \E k \in 1..Len(Unwrap(r.feed).links) :
                     Unwrap(r.feed).links[k] = read_feed(fs, FeedFile).feed.links[i]

\* a filter of a blank and an empty entry, with no date filter, has returned
\* none of three stored links, all of which a call with no filter returns
C34_Witness ==
  /\ last.op = "list" /\ last.ok
  /\ Unwrap(last.args) = [tags |-> Some(<<tBlank, <<>> >>), datetime |-> None]
  /\ Len(read_feed(fs, FeedFile).feed.links) = 3
  /\ Unwrap(last.feed).links = <<>>
  /\ Len(Unwrap(list(fs, FeedFile, None, None).feed).links) = 3

=============================================================================
